---------------------------- MODULE Spec2Model ----------------------------
(***************************************************************************)
(* State-machine model of the VENOM Lambda components:                     *)
(*   - NanoBot            (venom_lambda/mesh/nanobot.py)                   *)
(*   - Mesh               (venom_lambda/mesh/mesh.py)                      *)
(*   - LambdaArbiter      (venom_lambda/arbiter_core/arbiter.py)           *)
(*   - MeshOrchestrator   (venom_lambda/core/venom_mesh_orchestrator.py)   *)
(*   - discovery registry (venom_lambda/core/mesh_discovery.py)            *)
(*   - IntegrationManager (venom_lambda/integration/integration_manager.py)*)
(*   - PulseFractal       (venom_lambda/pulse/pulse.py)                    *)
(*   - host bridge        (app/.../integration/integration_manager.py)     *)
(*   - fractal_total      (venom_lambda/core/fractal.py, venom_api.py)     *)
(* Each component has its own variables, initial predicate and next-state  *)
(* relation; a component's specification leaves the other components'      *)
(* variables unchanged.  Wall-clock timestamps stored inside records       *)
(* (NanoBot memory, signal log) are not modelled: no property below reads  *)
(* them.  Times that decide behaviour (last_seen, organ durations) are     *)
(* whole seconds.                                                          *)
(***************************************************************************)
EXTENDS Integers, Sequences, FiniteSets, TLC

VARIABLES
    \* ---- a stand-alone NanoBot ----
    bot,            \* the NanoBot object: role, active, memory, counters
    nanoCalls,      \* ghost: receive() calls made so far (the next payload is nanoCalls + 1)
    nanoLog,        \* ghost: payloads of the calls made while active since the last clear_memory
    nanoRejected    \* ghost: receive() calls made while the bot was deactivated

nanoVars == <<bot, nanoCalls, nanoLog, nanoRejected>>

VARIABLES
    \* ---- the threaded Mesh ----
    nodes,              \* self.nodes: node id -> NanoBot
    nodeOrder,          \* the insertion order of self.nodes (dict iteration order)
    message_queue,      \* self.message_queue: FIFO of <<node id, data>>
    alive,              \* self.alive
    signal_log,         \* self.signal_log
    messages_delivered, \* self.messages_delivered
    messages_dropped,   \* self.messages_dropped
    total_nodes,        \* self.total_nodes
    loops,              \* the delivery threads started so far: position and locals
    meshExpect,         \* ghost: per node, the deliveries the documentation promises
    meshEnqueued,       \* ghost: messages put on the queue so far
    meshCalls           \* ghost: broadcast and send calls made so far

meshVars == <<nodes, nodeOrder, message_queue, alive, signal_log, messages_delivered,
              messages_dropped, total_nodes, loops, meshExpect, meshEnqueued, meshCalls>>

VARIABLES
    \* ---- the canonical LambdaArbiter during time_wrap ----
    genome,         \* self.genome['weights'] for R, B, E, O, in hundredths
    health,         \* the health snapshot of the running call
    twPc,           \* time_wrap: "idle", "collecting", "returned" or "raised"
    futures,        \* per organ, its future: "none", "running", "done" or "raised"
    organRet,       \* per organ, what its cycle returned (once done)
    results,        \* the results dict of the running call
    elapsed,        \* whole seconds since the organ cycles were submitted
    late,           \* ghost: organs that completed more than 5 s after submission
    twResult,       \* what time_wrap returned
    arbCtor         \* the constructor: its position, the genome file, self.genome, self.organs

arbVars == <<genome, health, twPc, futures, organRet, results, elapsed, late, twResult, arbCtor>>

VARIABLES
    \* ---- the threaded MeshOrchestrator ----
    peers,          \* self.peers: peer id -> record read from the registry file
    peerOrder,      \* the key order of self.peers
    load_tracking,  \* self.load_tracking: peer id -> load, in thousandths
    orchNow,        \* time.time(), whole seconds
    hcResult,       \* the last health_check call: its argument, the peer's age, its result
    lastSelected,   \* what the last dispatch_task call returned ("None" for None)
    dispatchCalls,  \* ghost: dispatch_task calls made so far
    loopIterations, \* ghost: orchestrator_loop iterations run so far
    dispatched      \* ghost: peer id -> tasks dispatch_task has given to it

orchVars == <<peers, peerOrder, load_tracking, orchNow, hcResult, lastSelected,
              dispatchCalls, loopIterations, dispatched>>

VARIABLES
    \* ---- the discovery daemon's peer registry ----
    PEERS,          \* the module-level dict, as its items in insertion order
    peerFile,       \* PEER_FILE: NoFile, or the items of the JSON object written
    discNow,        \* time.time(), whole seconds
    discDatagrams,  \* ghost: datagrams the listener has taken so far
    discOp,         \* ghost: the operation that ran last
    savedPeers,     \* ghost: PEERS as it stood when save_peers last wrote the file
    discLast,       \* ghost: the datagram the listener took last, and its source ip
    daemon          \* the main thread of multicast_daemon: position and locals

discVars == <<PEERS, peerFile, discNow, discDatagrams, discOp, savedPeers, discLast, daemon>>

VARIABLES
    \* ---- the message bus of the full IntegrationManager ----
    omega_to_lambda_queue,  \* the envelopes queued for the Lambda side
    lambda_to_omega_queue,  \* the envelopes queued for the Omega side
    omega_lock,             \* the holder of omega_lock ("" when free)
    lambda_lock,            \* the holder of lambda_lock ("" when free)
    message_handlers,       \* message type -> how the registered handler behaves
    messages_sent,
    messages_received,
    errors,
    senders,                \* the threads calling send_to_lambda / send_to_omega
    pmq,                    \* the thread calling process_message_queue
    busEnqueued,            \* ghost: envelopes ever appended to either queue
    busSendCalls,           \* ghost: send calls begun so far
    busTrue                 \* ghost: send calls that returned True

busVars == <<omega_to_lambda_queue, lambda_to_omega_queue, omega_lock, lambda_lock,
             message_handlers, messages_sent, messages_received, errors, senders, pmq,
             busEnqueued, busSendCalls, busTrue>>

VARIABLES
    \* ---- the PulseFractal heartbeat ----
    pulse_alive,    \* the pulse's self.alive
    beat_count,     \* self.beat_count
    total_beats,    \* self.total_beats
    beats,          \* the beat threads started so far: position and locals
    pulseWraps      \* ghost: time_wrap calls the beat threads have made

pulseVars == <<pulse_alive, beat_count, total_beats, beats, pulseWraps>>

VARIABLES
    \* ---- the Lambda components of the full IntegrationManager ----
    arbiter,                \* self.arbiter: "None" or the object held
    mesh,                   \* self.mesh: "None" or the object held
    pulse,                  \* self.pulse: "None" or the object held
    active,                 \* self.active
    last_omega_heartbeat,   \* self.last_omega_heartbeat
    last_lambda_heartbeat,  \* self.last_lambda_heartbeat
    mgrCall,                \* the last call on the manager: operation and outcome
    mgrCalls                \* ghost: calls made on the manager and its components

mgrVars == <<arbiter, mesh, pulse, active, last_omega_heartbeat, last_lambda_heartbeat,
             mgrCall, mgrCalls>>

VARIABLES
    \* ---- the tetrastrat decision ----
    fracIn,         \* the arguments of the call: the state s and the resilience theta
    fracOut         \* the copy that was called and what it returned or raised

fracVars == <<fracIn, fracOut>>

VARIABLES
    \* ---- EntropyCore ----
    learned_threats,  \* self.learned_threats
    defense_count,    \* self.defense_count
    entLast,          \* the last cycle: the threats it detected and what it returned
    entSeen,          \* ghost: the threats detected in the cycles so far
    entCycles         \* cycle() calls made

entVars == <<learned_threats, defense_count, entLast, entSeen, entCycles>>

vars == <<nanoVars, meshVars, arbVars, orchVars, discVars, busVars, pulseVars, mgrVars, fracVars,
          entVars>>

(***************************************************************************)
(*                               NanoBot                                   *)
(***************************************************************************)

\* Bounds of the stand-alone NanoBot runs.
MaxExtra == 2        \* messages received beyond the role's capacity
MaxCalls == 4        \* receive() calls in the activation life-cycle runs
MaxRejected == 2     \* of these, calls made while deactivated

\* capacities of _get_memory_capacity
CapMemoryCarrier == 200
CapSignalRelay == 50
CapKnowledgeKeeper == 500
CapGeneric == 100

KnownRoles == {"memory_carrier", "signal_relay", "knowledge_keeper", "generic"}

\* Roles a caller may pass to the constructor: any string is accepted.
RoleInputs == KnownRoles \cup {"queen"}

\* capacities.get(self.role, 100)
GetMemoryCapacity(role) ==
    CASE role = "memory_carrier" -> CapMemoryCarrier
      [] role = "signal_relay" -> CapSignalRelay
      [] role = "knowledge_keeper" -> CapKnowledgeKeeper
      [] role = "generic" -> CapGeneric
      [] OTHER -> CapGeneric

\* NanoBot.__init__
NewNanoBot(role) ==
    [ role |-> role,
      memory |-> <<>>,
      active |-> TRUE,
      messages_received |-> 0,
      messages_processed |-> 0,
      memory_capacity |-> GetMemoryCapacity(role) ]

\* the record receive() builds: {"timestamp", "data", "processed": False}
NewMessage(data) ==
    [ data |-> data, processed |-> FALSE, indexed |-> FALSE, relayed |-> FALSE ]

\* _process_message: the role-specific marks on the record
ProcessMessage(role, msg) ==
    CASE role = "memory_carrier" -> [msg EXCEPT !.indexed = TRUE]
      [] role = "signal_relay" -> [msg EXCEPT !.relayed = TRUE]
      [] role = "knowledge_keeper" -> [msg EXCEPT !.indexed = TRUE, !.processed = TRUE]
      [] role = "generic" -> [msg EXCEPT !.processed = TRUE]
      [] OTHER -> msg

\* (mutation of Evict: evicts as soon as the capacity is reached)
EvictAtCapacity(mem, cap) == IF Len(mem) >= cap THEN Tail(mem) ELSE mem

\* the FIFO eviction at the end of receive(): pop(0) once the capacity is exceeded
Evict(mem, cap) == IF Len(mem) > cap THEN Tail(mem) ELSE mem

\* receive() of an active bot
Accept(b, data) ==
    [ b EXCEPT !.messages_received = @ + 1,
               !.memory = Evict(Append(@, ProcessMessage(b.role, NewMessage(data))),
                                b.memory_capacity),
               !.messages_processed = @ + 1 ]

\* (mutation of Receive: the active flag is not consulted)
ReceiveAlways(b, data) == Accept(b, data)

\* NanoBot.receive
Receive(b, data) == IF ~b.active THEN b ELSE Accept(b, data)

\* NanoBot.clear_memory
ClearMemory(b) == [b EXCEPT !.memory = <<>>]

\* NanoBot.deactivate / NanoBot.reactivate
Deactivate(b) == [b EXCEPT !.active = FALSE]
Reactivate(b) == [b EXCEPT !.active = TRUE]

\* the variables of a component that a specification does not exercise
NanoIdle == bot = NewNanoBot("generic") /\ nanoCalls = 0 /\ nanoLog = <<>> /\ nanoRejected = 0

NanoStart ==
    /\ \E role \in RoleInputs : bot = NewNanoBot(role)
    /\ nanoCalls = 0
    /\ nanoLog = <<>>
    /\ nanoRejected = 0

\* a caller invokes bot.receive(payload); the payload is the call's ordinal
NanoReceive ==
    /\ bot' = Receive(bot, nanoCalls + 1)
    /\ nanoCalls' = nanoCalls + 1
    /\ nanoLog' = IF bot.active THEN Append(nanoLog, nanoCalls + 1) ELSE nanoLog
    /\ nanoRejected' = IF bot.active THEN nanoRejected ELSE nanoRejected + 1

NanoClearMemory ==
    /\ bot' = ClearMemory(bot)
    /\ nanoLog' = <<>>
    /\ UNCHANGED <<nanoCalls, nanoRejected>>

NanoDeactivate ==
    /\ bot.active
    /\ bot' = Deactivate(bot)
    /\ UNCHANGED <<nanoCalls, nanoLog, nanoRejected>>

NanoReactivate ==
    /\ ~bot.active
    /\ bot' = Reactivate(bot)
    /\ UNCHANGED <<nanoCalls, nanoLog, nanoRejected>>

(***************************************************************************)
(*                                 Mesh                                    *)
(***************************************************************************)

\* Bounds of the mesh runs.
MaxLoops == 2        \* delivery threads ever started
MaxMeshCalls == 2    \* broadcast and send calls
MaxNodeAdds == 3     \* add_node calls on a mesh whose nodes come and go

\* queue.Queue() is built without a maxsize: 0 means the queue is unbounded
QueueMaxSize == 0
\* the signal log keeps the last 1000 entries
SignalLogCap == 1000

NodeIds == {"nano_1", "nano_2", "nano_3"}
\* broadcast() accepts any sender id, also one that is no node of the mesh
SenderIds == NodeIds \cup {"test_sender"}
DataSet == {"m1", "m2"}
Threads == 1..MaxLoops

\* the roles main() gives to nano_i: [memory_carrier, signal_relay, knowledge_keeper][i % 3]
RoleOf(n) ==
    CASE n = "nano_1" -> "signal_relay"
      [] n = "nano_2" -> "knowledge_keeper"
      [] OTHER -> "memory_carrier"

\* queue.Full: only a queue with a positive maxsize can be full
QueueFull(q) == QueueMaxSize > 0 /\ Len(q) >= QueueMaxSize

\* the ids of self.nodes in iteration order
RECURSIVE SeqWithout(_, _)
SeqWithout(seq, x) ==
    IF seq = <<>> THEN <<>>
    ELSE IF Head(seq) = x THEN SeqWithout(Tail(seq), x)
         ELSE <<Head(seq)>> \o SeqWithout(Tail(seq), x)

\* (mutation of BroadcastTargets: the sender is not skipped)
BroadcastTargetsAll(sender) == nodeOrder

\* broadcast(): the recipients, in iteration order: every node id but the sender's
BroadcastTargets(sender) == SeqWithout(nodeOrder, sender)

\* the put() loop of broadcast(): one (nid, data) per recipient; a put on a
\* full queue drops the message and counts it. The third and fourth components
\* of a queued message are ghosts: whether remove_node has removed the node
\* the message was queued for since it was put, and whether it was put while
\* the mesh was not running and start() has not been called since.
RECURSIVE PutAll(_, _, _, _)
PutAll(q, dropped, targets, data) ==
    IF targets = <<>> THEN [queue |-> q, dropped |-> dropped]
    ELSE IF QueueFull(q)
         THEN PutAll(q, dropped + 1, Tail(targets), data)
         ELSE PutAll(Append(q, <<Head(targets), data, FALSE, ~alive>>), dropped, Tail(targets), data)

MeshIdle ==
    /\ nodes = <<>>
    /\ nodeOrder = <<>>
    /\ message_queue = <<>>
    /\ alive = FALSE
    /\ signal_log = <<>>
    /\ messages_delivered = 0
    /\ messages_dropped = 0
    /\ total_nodes = 0
    /\ loops = [t \in Threads |-> [pc |-> "unborn", nid |-> "", data |-> "", tmp |-> 0, orphan |-> FALSE]]
    /\ meshExpect = [n \in NodeIds |-> 0]
    /\ meshEnqueued = 0
    /\ meshCalls = 0

\* Mesh.__init__
MeshInit == MeshIdle

\* Mesh.add_node(node_id, NanoBot(node_id, role))
MeshAddNode(n) ==
    /\ nodes' = [m \in DOMAIN nodes \cup {n} |-> IF m = n THEN NewNanoBot(RoleOf(n)) ELSE nodes[m]]
    /\ nodeOrder' = IF n \in DOMAIN nodes THEN nodeOrder ELSE Append(nodeOrder, n)
    /\ total_nodes' = total_nodes + 1
    /\ meshExpect' = [meshExpect EXCEPT ![n] = 0]
    /\ UNCHANGED <<message_queue, alive, signal_log, messages_delivered, messages_dropped,
                   loops, meshEnqueued, meshCalls>>

\* Mesh.add_node(node_id, role) as the host bridge's start_organism calls it:
\* the node reference is the role string, not a NanoBot
MeshAddRoleNode(n) ==
    /\ nodes' = [m \in DOMAIN nodes \cup {n} |-> IF m = n THEN [str |-> RoleOf(n)] ELSE nodes[m]]
    /\ nodeOrder' = IF n \in DOMAIN nodes THEN nodeOrder ELSE Append(nodeOrder, n)
    /\ total_nodes' = total_nodes + 1
    /\ meshExpect' = [meshExpect EXCEPT ![n] = 0]
    /\ UNCHANGED <<message_queue, alive, signal_log, messages_delivered, messages_dropped,
                   loops, meshEnqueued, meshCalls>>

\* ghost: the messages queued for n are marked when n is removed
Orphaned(q, n) ==
    [i \in DOMAIN q |-> IF q[i][1] = n THEN <<q[i][1], q[i][2], TRUE, q[i][4]>> ELSE q[i]]

\* Mesh.remove_node(node_id): the queue is left as it is
MeshRemoveNode(n) ==
    /\ n \in DOMAIN nodes
    /\ nodes' = [m \in DOMAIN nodes \ {n} |-> nodes[m]]
    /\ nodeOrder' = SeqWithout(nodeOrder, n)
    /\ message_queue' = Orphaned(message_queue, n)
    /\ UNCHANGED <<alive, signal_log, messages_delivered, messages_dropped,
                   total_nodes, loops, meshExpect, meshEnqueued, meshCalls>>

\* Mesh.broadcast(sender, data)
MeshBroadcast(sender, data) ==
    LET r == PutAll(message_queue, messages_dropped, BroadcastTargets(sender), data)
    IN  /\ message_queue' = r.queue
        /\ messages_dropped' = r.dropped
        /\ meshEnqueued' = meshEnqueued + (Len(r.queue) - Len(message_queue))
        /\ meshExpect' = [n \in NodeIds |->
                            IF n \in DOMAIN nodes /\ n # sender
                            THEN meshExpect[n] + 1 ELSE meshExpect[n]]
        /\ meshCalls' = meshCalls + 1
        /\ UNCHANGED <<nodes, nodeOrder, alive, signal_log, messages_delivered,
                       total_nodes, loops>>

\* Mesh.send(recipient, data)
MeshSend(recipient, data) ==
    LET r == IF recipient \in DOMAIN nodes
             THEN PutAll(message_queue, messages_dropped, <<recipient>>, data)
             ELSE [queue |-> message_queue, dropped |-> messages_dropped]
    IN  /\ message_queue' = r.queue
        /\ messages_dropped' = r.dropped
        /\ meshEnqueued' = meshEnqueued + (Len(r.queue) - Len(message_queue))
        /\ meshExpect' = [n \in NodeIds |->
                            IF n \in DOMAIN nodes /\ n = recipient
                            THEN meshExpect[n] + 1 ELSE meshExpect[n]]
        /\ meshCalls' = meshCalls + 1
        /\ UNCHANGED <<nodes, nodeOrder, alive, signal_log, messages_delivered,
                       total_nodes, loops>>

\* ghost: start() was called with these messages queued
Started(q) == [i \in DOMAIN q |-> <<q[i][1], q[i][2], q[i][3], FALSE>>]

\* Mesh.start(): returns at once on a running mesh, else sets the flag and
\* starts a new daemon thread running deliver()
MeshStart ==
    /\ ~alive
    /\ \E t \in Threads :
          /\ loops[t].pc = "unborn"
          /\ \A u \in Threads : u < t => loops[u].pc # "unborn"
          /\ loops' = [loops EXCEPT ![t].pc = "top"]
    /\ alive' = TRUE
    /\ message_queue' = Started(message_queue)
    /\ UNCHANGED <<nodes, nodeOrder, signal_log, messages_delivered,
                   messages_dropped, total_nodes, meshExpect, meshEnqueued, meshCalls>>

\* Mesh.stop(): clears the flag; the thread is neither joined nor signalled
MeshStop ==
    /\ alive
    /\ alive' = FALSE
    /\ UNCHANGED <<nodes, nodeOrder, message_queue, signal_log, messages_delivered,
                   messages_dropped, total_nodes, loops, meshExpect, meshEnqueued, meshCalls>>

\* (mutation of LoopTop: the flag is not consulted)
LoopTopForever(t) ==
    /\ loops[t].pc = "top"
    /\ loops' = [loops EXCEPT ![t].pc = "poll"]
    /\ UNCHANGED <<nodes, nodeOrder, message_queue, alive, signal_log, messages_delivered,
                   messages_dropped, total_nodes, meshExpect, meshEnqueued, meshCalls>>

\* deliver(): `while self.alive`
LoopTop(t) ==
    /\ loops[t].pc = "top"
    /\ loops' = [loops EXCEPT ![t].pc = IF alive THEN "poll" ELSE "exited"]
    /\ UNCHANGED <<nodes, nodeOrder, message_queue, alive, signal_log, messages_delivered,
                   messages_dropped, total_nodes, meshExpect, meshEnqueued, meshCalls>>

\* deliver(): `if not empty(): nid, data = get(timeout=0.001)`; on an empty queue
\* (or queue.Empty from the get) the thread sleeps 1 ms and loops
LoopPoll(t) ==
    /\ loops[t].pc = "poll"
    /\ IF message_queue # <<>>
       THEN /\ loops' = [loops EXCEPT ![t].pc = "deliver",
                                      ![t].nid = Head(message_queue)[1],
                                      ![t].data = Head(message_queue)[2],
                                      ![t].orphan = Head(message_queue)[3]]
            /\ message_queue' = Tail(message_queue)
       ELSE /\ loops' = [loops EXCEPT ![t].pc = "top"]
            /\ UNCHANGED message_queue
    /\ UNCHANGED <<nodes, nodeOrder, alive, signal_log, messages_delivered,
                   messages_dropped, total_nodes, meshExpect, meshEnqueued, meshCalls>>

\* `self.nodes[nid].receive`: a NanoBot has the method; any other object
\* stored as a node (add_node takes Any) raises AttributeError
HasReceive(node) == "memory" \in DOMAIN node

\* (mutation of Dropped: the drop counter is not advanced)
DroppedNot(read) == read

\* the value `self.messages_dropped += 1` stores in the inner except clause
Dropped(read) == read + 1

\* (mutation of LoopDeliver: a message for a node that is not in the mesh is
\* counted as dropped)
LoopDeliverCounting(t) ==
    /\ loops[t].pc = "deliver"
    /\ IF loops[t].nid \in DOMAIN nodes /\ HasReceive(nodes[loops[t].nid])
       THEN /\ nodes' = [nodes EXCEPT ![loops[t].nid] = Receive(@, loops[t].data)]
            /\ loops' = [loops EXCEPT ![t].pc = "log"]
            /\ UNCHANGED messages_dropped
       ELSE /\ messages_dropped' = Dropped(messages_dropped)
            /\ loops' = [loops EXCEPT ![t].pc = "top", ![t].nid = "", ![t].data = "", ![t].orphan = FALSE]
            /\ UNCHANGED nodes
    /\ UNCHANGED <<nodeOrder, message_queue, alive, signal_log, messages_delivered,
                   total_nodes, meshExpect, meshEnqueued, meshCalls>>

\* deliver(): `if nid in self.nodes: self.nodes[nid].receive(data)`; a message
\* for a node that is no longer in the mesh is discarded; when receive raises,
\* the inner except clause logs, counts the message as dropped, and the
\* iteration ends with its 1 ms sleep
LoopDeliver(t) ==
    /\ loops[t].pc = "deliver"
    /\ IF loops[t].nid \in DOMAIN nodes
       THEN IF HasReceive(nodes[loops[t].nid])
            THEN /\ nodes' = [nodes EXCEPT ![loops[t].nid] = Receive(@, loops[t].data)]
                 /\ loops' = [loops EXCEPT ![t].pc = "log"]
                 /\ UNCHANGED messages_dropped
            ELSE /\ messages_dropped' = Dropped(messages_dropped)
                 /\ loops' = [loops EXCEPT ![t].pc = "top", ![t].nid = "", ![t].data = "", ![t].orphan = FALSE]
                 /\ UNCHANGED nodes
       ELSE /\ loops' = [loops EXCEPT ![t].pc = "top", ![t].nid = "", ![t].data = "", ![t].orphan = FALSE]
            /\ UNCHANGED <<nodes, messages_dropped>>
    /\ UNCHANGED <<nodeOrder, message_queue, alive, signal_log, messages_delivered,
                   total_nodes, meshExpect, meshEnqueued, meshCalls>>

\* deliver(): signal_log.append({...}) and the read of `messages_delivered += 1`
LoopLog(t) ==
    /\ loops[t].pc = "log"
    /\ signal_log' = Append(signal_log, [recipient |-> loops[t].nid, data |-> loops[t].data])
    /\ loops' = [loops EXCEPT ![t].pc = "count", ![t].tmp = messages_delivered]
    /\ UNCHANGED <<nodes, nodeOrder, message_queue, alive, messages_delivered,
                   messages_dropped, total_nodes, meshExpect, meshEnqueued, meshCalls>>

\* (mutation of Counted: the delivery counter is not advanced)
CountedNot(read) == read

\* the value `messages_delivered += 1` stores, from the value it read
Counted(read) == read + 1

\* the last SignalLogCap entries of the log
LastEntries(log) ==
    IF Len(log) > SignalLogCap THEN SubSeq(log, Len(log) - SignalLogCap + 1, Len(log)) ELSE log

\* deliver(): the write of `messages_delivered += 1`, the trimming of the
\* signal log, and the 1 ms sleep
LoopCount(t) ==
    /\ loops[t].pc = "count"
    /\ messages_delivered' = Counted(loops[t].tmp)
    /\ signal_log' = LastEntries(signal_log)
    /\ loops' = [loops EXCEPT ![t].pc = "top", ![t].nid = "", ![t].data = "", ![t].orphan = FALSE, ![t].tmp = 0]
    /\ UNCHANGED <<nodes, nodeOrder, message_queue, alive, messages_dropped, total_nodes,
                   meshExpect, meshEnqueued, meshCalls>>

\* one step of a delivery thread
LoopStep(t) == LoopTop(t) \/ LoopPoll(t) \/ LoopDeliver(t) \/ LoopLog(t) \/ LoopCount(t)

(***************************************************************************)
(*                             LambdaArbiter                               *)
(***************************************************************************)

\* Bound of the arbiter runs: the seconds the clock may advance during a call.
MaxElapsed == 6

\* future.result(timeout=5.0)
OrganTimeout == 5
\* weights.get(organ_key, 0.25), in hundredths
FallbackWeight == 25

\* the keys of self.organs after _init_organs
OrganNames == {"REGEN", "BALANCE", "ENTROPY", "OPTIMIZE"}

\* organ_name[0]: the organ's genome key
OrganKey(o) ==
    CASE o = "REGEN" -> "R" [] o = "BALANCE" -> "B" [] o = "ENTROPY" -> "E" [] OTHER -> "O"

\* the fallback genome of __init__, in hundredths
DefaultGenome == [R |-> 20, B |-> 30, E |-> 15, O |-> 30]

\* Genomes a genome.json may hold: the weights are read without validation.
GenomeChoices ==
    { DefaultGenome,
      [R |-> 0, B |-> 0, E |-> 0, O |-> 0],
      [R |-> 200, B |-> 100, E |-> 0, O |-> 50] }

\* A health field is a number (in hundredths, or a plain count) or a value
\* that is no number (a string, null), on which a comparison raises TypeError.
HNum(v) == [kind |-> "number", val |-> v]
HBad == [kind |-> "other", val |-> 0]

\* the health snapshots a caller passes; the third is the documented sample
HealthChoices ==
    [ theta : {HBad, HNum(20), HNum(75)},
      memory_health : {HBad, HNum(10), HNum(85)},
      cache_size_mb : {HBad, HNum(50)},
      cpu_cores : {HBad, HNum(8)} ]

\* get_default_health()
DefaultHealth ==
    [ theta |-> HNum(70), memory_health |-> HNum(85),
      cache_size_mb |-> HNum(50), cpu_cores |-> HNum(8) ]

\* RegenCore.cycle: detect_damage compares memory_health and cache_size;
\* no issue -> "monitoring", else "regenerating"
RegenCycle(h) ==
    IF h.memory_health.kind # "number" \/ h.cache_size_mb.kind # "number"
    THEN [raised |-> TRUE, ret |-> <<>>]
    ELSE [raised |-> FALSE,
          ret |-> [organ |-> "REGEN",
                   action |-> IF h.memory_health.val < 50 \/ h.cache_size_mb.val > 1000
                              THEN "regenerating" ELSE "monitoring"]]

\* BalanceCore.cycle: stabilize(theta) compares theta
BalanceCycle(h) ==
    IF h.theta.kind # "number"
    THEN [raised |-> TRUE, ret |-> <<>>]
    ELSE [raised |-> FALSE, ret |-> [organ |-> "BALANCE", action |-> "balancing"]]

\* EntropyCore.cycle: detect_threats compares memory_health
EntropyCycle(h) ==
    IF h.memory_health.kind # "number"
    THEN [raised |-> TRUE, ret |-> <<>>]
    ELSE [raised |-> FALSE, ret |-> [organ |-> "ENTROPY", action |-> "defending"]]

\* OptimizeCore.cycle: detect_optimization_targets compares theta and cpu_cores
OptimizeCycle(h) ==
    IF h.theta.kind # "number" \/ h.cpu_cores.kind # "number"
    THEN [raised |-> TRUE, ret |-> <<>>]
    ELSE [raised |-> FALSE, ret |-> [organ |-> "OPTIMIZE", action |-> "optimizing"]]

\* organ.cycle(health_data)
OrganCycle(o, h) ==
    CASE o = "REGEN" -> RegenCycle(h)
      [] o = "BALANCE" -> BalanceCycle(h)
      [] o = "ENTROPY" -> EntropyCycle(h)
      [] OTHER -> OptimizeCycle(h)

\* the entry `except Exception as e: results[organ_name] = {"error": str(e)}`
ErrorEntry == [error |-> "TypeError"]

\* (mutation of ResultEntry: a failed organ is recorded as a successful one)
ResultEntrySwallow(state, ret) ==
    IF state = "raised" THEN [action |-> "unknown"] ELSE ret

\* time_wrap's try/except around future.result(): the organ's result, or an
\* error entry when the future raised
ResultEntry(state, ret) ==
    IF state = "raised" THEN ErrorEntry ELSE ret

\* recalibrate: `'action' in result and result['action'] != 'error'`
OrganScore(entry) ==
    IF "action" \in DOMAIN entry /\ entry.action # "error" THEN 1 ELSE 0

\* weights.get(organ_key, 0.25)
WeightOf(w, o) == IF OrganKey(o) \in DOMAIN w THEN w[OrganKey(o)] ELSE FallbackWeight

\* the loop of recalibrate: f[x] added up over the keys in S
RECURSIVE SumOver(_, _, _)
SumOver(S, f, acc) ==
    IF S = {} THEN acc
    ELSE LET x == CHOOSE y \in S : TRUE IN SumOver(S \ {x}, f, acc + f[x])

\* (mutation of Normalize: the weighted sum is not divided by the total weight)
NormalizeNot(score, total) == [num |-> score, den |-> 100]

\* recalibrate: `if total_weight > 0: integrated_score /= total_weight`;
\* the quotient is kept as a fraction of the two sums of hundredths
Normalize(score, total) ==
    IF total > 0 THEN [num |-> score, den |-> total] ELSE [num |-> 0, den |-> 1]

\* LambdaArbiter.recalibrate
Recalibrate(w, organ_results) ==
    LET ScoreOf == [o \in DOMAIN organ_results |->
                       WeightOf(w, o) * OrganScore(organ_results[o])]
        Weight == [o \in DOMAIN organ_results |-> WeightOf(w, o)]
    IN  [ organs |-> organ_results,
          integrated_score |-> Normalize(SumOver(DOMAIN organ_results, ScoreOf, 0),
                                         SumOver(DOMAIN organ_results, Weight, 0)),
          genome_balance |-> w ]

\* ---- LambdaArbiter.__init__ and _init_organs ----

\* the genome keys of the four organs
GenomeKeys == {"R", "B", "E", "O"}

\* the fallback genome of __init__ as the whole dict, weights in hundredths
\* (L stands for the key "Λ")
DefaultGenomeDoc ==
    [ t |-> "dict",
      bases |-> <<"R", "B", "E", "O">>,
      weights |-> [t |-> "dict", w |-> [R |-> 20, B |-> 30, E |-> 15, O |-> 30, L |-> 5]],
      pulses |-> "fractal_parallel" ]

\* what the value under "Λ-genome" of a genome file may be: no dict (a number,
\* null), a dict without "weights", or a dict whose "weights" is a list or a
\* dict holding any of the four keys
GenomeValues ==
    { [t |-> "number"], [t |-> "dict"], [t |-> "dict", weights |-> [t |-> "list"]] }
    \cup { [t |-> "dict", weights |-> [t |-> "dict", w |-> w]] :
              w \in UNION { [S -> {20, 30}] : S \in SUBSET GenomeKeys } }

\* the genome files: absent, no JSON, JSON that is no object (an array), an
\* object without the key "Λ-genome", an object with it
GenomeFiles ==
    { [kind |-> k] : k \in {"missing", "not_json", "not_object", "no_key"} }
    \cup { [kind |-> "genome", val |-> v] : v \in GenomeValues }

\* the constructor was not run yet on file f
CtorPending(f) == [pc |-> "pending", file |-> f, genome |-> [t |-> "unset"], organs |-> {}]

\* the try of __init__: open, json.load and genome_data['Λ-genome'] raise on
\* the first four kinds of file, and the except clause substitutes the
\* default; any value found under the key is taken as it is
LoadGenome(f) == IF f.kind = "genome" THEN f.val ELSE DefaultGenomeDoc

\* genome['weights'] does not raise
HasWeights(g) == g.t = "dict" /\ "weights" \in DOMAIN g

\* _init_organs: each organ's constructor reads genome['weights'][key]; the
\* dict of four organs is assigned after all four were built, and any
\* exception leaves `self.organs = {}`
InitOrgans(g) ==
    IF HasWeights(g) /\ g.weights.t = "dict" /\ GenomeKeys \subseteq DOMAIN g.weights.w
    THEN OrganNames
    ELSE {}

\* LambdaArbiter(genome_path): the genome is loaded, the organs are built, and
\* the closing logging.info formats self.genome['weights'] outside any try
ArbConstruct ==
    /\ arbCtor.pc = "pending"
    /\ LET g == LoadGenome(arbCtor.file)
       IN  arbCtor' = [arbCtor EXCEPT !.genome = g,
                                      !.organs = InitOrgans(g),
                                      !.pc = IF HasWeights(g) THEN "returned" ELSE "raised"]
    /\ UNCHANGED <<genome, health, twPc, futures, organRet, results, elapsed, late, twResult>>

\* an arbiter built from the fallback genome
CtorBuilt ==
    [pc |-> "returned", file |-> [kind |-> "missing"], genome |-> DefaultGenomeDoc,
     organs |-> OrganNames]

ArbIdle ==
    /\ genome = DefaultGenome
    /\ health = DefaultHealth
    /\ twPc = "idle"
    /\ futures = [o \in OrganNames |-> "none"]
    /\ organRet = [o \in OrganNames |-> <<>>]
    /\ results = <<>>
    /\ elapsed = 0
    /\ late = {}
    /\ twResult = <<>>
    /\ arbCtor = CtorBuilt

\* LambdaArbiter.__init__ with a genome file, or the fallback genome
ArbStart ==
    /\ genome \in GenomeChoices
    /\ health = DefaultHealth
    /\ twPc = "idle"
    /\ futures = [o \in OrganNames |-> "none"]
    /\ organRet = [o \in OrganNames |-> <<>>]
    /\ results = <<>>
    /\ elapsed = 0
    /\ late = {}
    /\ twResult = <<>>
    /\ arbCtor = CtorBuilt

\* time_wrap(health_data): the four organ cycles are submitted to the pool
TimeWrapCall(h) ==
    /\ twPc \in {"idle", "returned"}
    /\ health' = h
    /\ twPc' = "collecting"
    /\ futures' = [o \in OrganNames |-> "running"]
    /\ organRet' = [o \in OrganNames |-> <<>>]
    /\ results' = <<>>
    /\ elapsed' = 0
    /\ late' = {}
    /\ twResult' = <<>>
    /\ UNCHANGED <<genome, arbCtor, arbCtor>>

\* a worker thread finishes organ.cycle: the future completes or holds the exception
OrganFinish(o) ==
    /\ futures[o] = "running"
    /\ LET r == OrganCycle(o, health)
       IN  /\ futures' = [futures EXCEPT ![o] = IF r.raised THEN "raised" ELSE "done"]
           /\ organRet' = [organRet EXCEPT ![o] = r.ret]
    /\ late' = IF elapsed > OrganTimeout THEN late \cup {o} ELSE late
    /\ UNCHANGED <<genome, health, twPc, results, elapsed, twResult, arbCtor>>

\* a second passes while time_wrap waits
Tick ==
    /\ twPc = "collecting"
    /\ elapsed < MaxElapsed
    /\ elapsed' = elapsed + 1
    /\ UNCHANGED <<genome, health, twPc, futures, organRet, results, late, twResult, arbCtor>>

\* `for future in as_completed(futures)`: the loop body runs for a future that
\* has completed; result(timeout=5.0) on a completed future returns or raises
\* at once
Collect(o) ==
    /\ twPc = "collecting"
    /\ o \notin DOMAIN results
    /\ futures[o] \in {"done", "raised"}
    /\ results' = [x \in DOMAIN results \cup {o} |->
                     IF x = o THEN ResultEntry(futures[o], organRet[o]) ELSE results[x]]
    /\ UNCHANGED <<genome, health, twPc, futures, organRet, elapsed, late, twResult, arbCtor>>

\* as_completed is exhausted (every future was yielded), the pool is shut
\* down, and time_wrap returns recalibrate(results)
TimeWrapReturn ==
    /\ twPc = "collecting"
    /\ DOMAIN results = OrganNames
    /\ twPc' = "returned"
    /\ twResult' = Recalibrate(genome, results)
    /\ UNCHANGED <<genome, health, futures, organRet, results, elapsed, late, arbCtor>>

(***************************************************************************)
(*                            MeshOrchestrator                             *)
(***************************************************************************)

\* Bounds of the orchestrator runs.
MaxDispatch == 3     \* dispatch_task calls
MaxOrchTicks == 2    \* seconds the clock advances
MaxLoopIterations == 1   \* iterations of orchestrator_loop
MaxBalanceCalls == 150   \* dispatch_task calls in a row on a fixed set of peers

\* `(time.time() - last_seen) < 60`
HealthThreshold == 60
\* the clock value the runs start from
OrchEpoch == 1000

PeerIds == {"node1", "node2"}
\* the ages (seconds before OrchEpoch) of the last_seen values a registry holds
AgeChoices == {58, 60}

\* self.peers[node_id].get('last_seen', 0)
LastSeen(info) == IF "last_seen" \in DOMAIN info THEN info.last_seen ELSE 0

\* (mutation of HealthCheck: the threshold itself counts as healthy)
HealthCheckInclusive(node_id) ==
    IF node_id \notin DOMAIN peers THEN FALSE
    ELSE (orchNow - LastSeen(peers[node_id])) <= HealthThreshold

\* MeshOrchestrator.health_check
HealthCheck(node_id) ==
    IF node_id \notin DOMAIN peers THEN FALSE
    ELSE (orchNow - LastSeen(peers[node_id])) < HealthThreshold

\* MeshOrchestrator.recent_load: load_tracking.get(node_id, 0.0)
RecentLoad(node_id) ==
    IF node_id \in DOMAIN load_tracking THEN load_tracking[node_id] ELSE 0

\* the healthy peers, in the key order of self.peers
RECURSIVE Candidates(_)
Candidates(order) ==
    IF order = <<>> THEN <<>>
    ELSE IF HealthCheck(Head(order))
         THEN <<Head(order)>> \o Candidates(Tail(order))
         ELSE Candidates(Tail(order))

\* (mutation of MinByLoad: the last candidate is taken, whatever its load)
LastCandidate(cands) == cands[Len(cands)]

\* min(candidates, key=recent_load): the first candidate of least load
RECURSIVE MinByLoad(_)
MinByLoad(cands) ==
    IF Len(cands) = 1 THEN Head(cands)
    ELSE LET rest == MinByLoad(Tail(cands))
         IN  IF RecentLoad(Head(cands)) <= RecentLoad(rest) THEN Head(cands) ELSE rest

\* recent_load(selected) * 0.9 + 1.0, in thousandths (rounded down)
Nudged(load) == (load * 9) \div 10 + 1000

\* load_tracking[node_id] *= 0.95, in thousandths (rounded down)
Decayed(load) == (load * 95) \div 100

\* the registries the discovery daemon may have written: up to two peers in
\* either key order, each seen 58 or 60 seconds before OrchEpoch or carrying
\* no last_seen at all
RegistryOrders ==
    {<<>>} \cup {<<a>> : a \in PeerIds}
           \cup {ord \in [1..2 -> PeerIds] : ord[1] # ord[2]}

PeerRecords == {[last_seen |-> OrchEpoch - a] : a \in AgeChoices} \cup {[healthy |-> TRUE]}

Range(f) == {f[x] : x \in DOMAIN f}

OrchIdle ==
    /\ peers = <<>>
    /\ peerOrder = <<>>
    /\ load_tracking = <<>>
    /\ orchNow = OrchEpoch
    /\ hcResult = [id |-> "", known |-> FALSE, age |-> 0, healthy |-> FALSE]
    /\ lastSelected = ""
    /\ dispatchCalls = 0
    /\ loopIterations = 0
    /\ dispatched = [n \in PeerIds |-> 0]

\* MeshOrchestrator.__init__
OrchInit == OrchIdle

\* MeshOrchestrator.load_peers: self.peers = json.load(f)
OrchLoadPeers(order, recs) ==
    /\ peers' = recs
    /\ peerOrder' = order
    /\ UNCHANGED <<load_tracking, orchNow, hcResult, lastSelected, dispatchCalls, loopIterations, dispatched>>

\* one iteration of orchestrator_loop: load_peers(), then every tracked load decays
OrchLoopIteration(order, recs) ==
    /\ peers' = recs
    /\ peerOrder' = order
    /\ load_tracking' = [n \in DOMAIN load_tracking |-> Decayed(load_tracking[n])]
    /\ loopIterations' = loopIterations + 1
    /\ UNCHANGED <<orchNow, hcResult, lastSelected, dispatchCalls, dispatched>>

\* a second passes
OrchTick ==
    /\ orchNow < OrchEpoch + MaxOrchTicks
    /\ orchNow' = orchNow + 1
    /\ UNCHANGED <<peers, peerOrder, load_tracking, hcResult, lastSelected, dispatchCalls, loopIterations, dispatched>>

\* a caller invokes health_check(node_id)
OrchHealthCheck(node_id) ==
    /\ hcResult' = [ id |-> node_id,
                     known |-> node_id \in DOMAIN peers,
                     age |-> IF node_id \in DOMAIN peers
                             THEN orchNow - LastSeen(peers[node_id]) ELSE 0,
                     healthy |-> HealthCheck(node_id) ]
    /\ UNCHANGED <<peers, peerOrder, load_tracking, orchNow, lastSelected, dispatchCalls, loopIterations, dispatched>>

\* MeshOrchestrator.dispatch_task
OrchDispatchTask ==
    LET cands == Candidates(peerOrder)
    IN  /\ IF cands = <<>>
           THEN /\ lastSelected' = "None"
                /\ UNCHANGED <<load_tracking, dispatched>>
           ELSE LET selected == MinByLoad(cands)
                IN  /\ lastSelected' = selected
                    /\ dispatched' = [dispatched EXCEPT ![selected] = @ + 1]
                    /\ load_tracking' =
                          [n \in DOMAIN load_tracking \cup {selected} |->
                             IF n = selected THEN Nudged(RecentLoad(selected))
                             ELSE load_tracking[n]]
        /\ dispatchCalls' = dispatchCalls + 1
        /\ UNCHANGED <<peers, peerOrder, orchNow, hcResult, loopIterations>>

(***************************************************************************)
(*                        Discovery peer registry                          *)
(***************************************************************************)

\* Bounds of the discovery runs.
MaxDatagrams == 2       \* datagrams the listener takes
MaxDiscTime == 11       \* seconds the clock reaches

\* PEER_TIMEOUT
PEER_TIMEOUT == 10
\* the grpc_port of announce_presence and the default of message.get("grpc_port", 8443)
DefaultGrpcPort == 8443
\* a port a peer may advertise instead
OtherGrpcPort == 9999

\* Python values used as dict keys: strings, integers and None.
PyStr(text) == [t |-> "str", v |-> text]
PyInt(text) == [t |-> "int", v |-> text]
PyNone == [t |-> "none", v |-> "None"]

\* NODE_ID = str(uuid.uuid4())
NODE_ID == PyStr("self-uuid")

\* the peer file does not exist
NoFile == [exists |-> FALSE]

\* the durations that pass between two operations
TickSteps == {5, 6}

\* the source addresses of received datagrams
SourceIps == {"10.0.0.5"}

\* The datagrams the listener may receive: bytes that are not JSON, JSON that
\* is not an object, and objects whose "id" is a string (this node's own or a
\* peer's), an integer, or absent, with or without a "grpc_port".
Datagrams ==
    {[kind |-> "not_json"], [kind |-> "not_object"]} \cup
    { [kind |-> "object", has_id |-> TRUE, id |-> i, has_port |-> hp, grpc_port |-> OtherGrpcPort] :
         i \in {NODE_ID, PyStr("peer-a"), PyInt("7")}, hp \in BOOLEAN } \cup
    { [kind |-> "object", has_id |-> FALSE, id |-> PyNone, has_port |-> hp, grpc_port |-> OtherGrpcPort] :
         hp \in BOOLEAN }

\* ---- dicts, as sequences of items with distinct keys ----
DictKeys(d) == {d[i].key : i \in DOMAIN d}
DictHas(d, k) == k \in DictKeys(d)
DictGet(d, k) == (CHOOSE i \in DOMAIN d : d[i].key = k) \* index of k
DictValue(d, k) == d[DictGet(d, k)].info

\* d[k] = info: an existing key keeps its place, a new one goes last
DictSet(d, k, info) ==
    IF DictHas(d, k)
    THEN [i \in DOMAIN d |-> IF d[i].key = k THEN [key |-> k, info |-> info] ELSE d[i]]
    ELSE Append(d, [key |-> k, info |-> info])

\* the items of d whose key is not in the set gone
RECURSIVE DictWithout(_, _)
DictWithout(d, gone) ==
    IF d = <<>> THEN <<>>
    ELSE IF Head(d).key \in gone THEN DictWithout(Tail(d), gone)
         ELSE <<Head(d)>> \o DictWithout(Tail(d), gone)

\* ---- JSON ----
\* json.dumps writes every dict key as a string: str as is, an int as its
\* digits, None as null
JsonKey(k) ==
    CASE k.t = "str" -> k.v
      [] k.t = "int" -> k.v
      [] k.t = "none" -> "null"

\* save_peers: a tuple addr is written as a list
SerializableInfo(info) ==
    IF info.addr.t = "tuple" THEN [info EXCEPT !.addr.t = "list"] ELSE info

\* json.dumps(serializable_peers): the items in dict order, keys as strings
RECURSIVE JsonDumps(_)
JsonDumps(d) ==
    IF d = <<>> THEN <<>>
    ELSE <<[key |-> JsonKey(Head(d).key), info |-> SerializableInfo(Head(d).info)]>>
            \o JsonDumps(Tail(d))

\* load_peers: a list addr becomes a tuple
LoadedInfo(info) ==
    IF info.addr.t = "list" THEN [info EXCEPT !.addr.t = "tuple"] ELSE info

\* json.loads of the file, then the addr conversion: every key is a str, and
\* of two items with the same key the later value stays
RECURSIVE JsonLoads(_, _)
JsonLoads(items, acc) ==
    IF items = <<>> THEN acc
    ELSE JsonLoads(Tail(items),
                   DictSet(acc, PyStr(Head(items).key), LoadedInfo(Head(items).info)))

\* no datagram was taken yet
NoDatagram == [dg |-> [kind |-> "none"], ip |-> ""]

\* multicast_daemon was not called yet
DaemonIdle == [pc |-> "unstarted", used |-> 0, i |-> 0, current_time |-> 0,
               to_remove |-> {}, last_save |-> 0]

DiscIdle ==
    /\ PEERS = <<>>
    /\ peerFile = NoFile
    /\ discNow = 0
    /\ discDatagrams = 0
    /\ discOp = "import"
    /\ savedPeers = <<>>
    /\ discLast = NoDatagram
    /\ daemon = DaemonIdle

\* the module as imported: PEERS = {}
DiscInit == DiscIdle

\* load_peers
DiscLoadPeers ==
    /\ PEERS' = IF peerFile.exists THEN JsonLoads(peerFile.items, <<>>) ELSE PEERS
    /\ discOp' = "load_peers"
    /\ UNCHANGED <<peerFile, discNow, discDatagrams, savedPeers, discLast, daemon>>

\* save_peers
DiscSavePeers ==
    /\ peerFile' = [exists |-> TRUE, items |-> JsonDumps(PEERS)]
    /\ savedPeers' = PEERS
    /\ discOp' = "save_peers"
    /\ UNCHANGED <<PEERS, discNow, discDatagrams, discLast, daemon>>

\* announce_presence: the datagram is sent and the node's own entry written
DiscAnnouncePresence ==
    /\ PEERS' = DictSet(PEERS, NODE_ID,
                        [ addr |-> [t |-> "tuple", host |-> "127.0.0.1", port |-> DefaultGrpcPort],
                          last_seen |-> discNow, healthy |-> TRUE, is_local |-> TRUE ])
    /\ discOp' = "announce_presence"
    /\ UNCHANGED <<peerFile, discNow, discDatagrams, savedPeers, discLast, daemon>>

\* (mutation of PeerAddress: the advertised port is not read)
PeerAddressDefaultPort(ip, dg) == [t |-> "tuple", host |-> ip, port |-> DefaultGrpcPort]

\* peer_address = (address[0], message.get("grpc_port", 8443))
PeerAddress(ip, dg) ==
    [t |-> "tuple", host |-> ip, port |-> IF dg.has_port THEN dg.grpc_port ELSE DefaultGrpcPort]

\* PEERS.get(peer_id, {}).get("healthy", True)
KnownHealthy(d, k) == IF DictHas(d, k) THEN DictValue(d, k).healthy ELSE TRUE

\* one pass of the listener's loop body over a received datagram
DiscListen(dg, ip) ==
    /\ PEERS' =
          IF dg.kind # "object" THEN PEERS             \* json.loads or .get raised
          ELSE IF dg.id = NODE_ID THEN PEERS           \* own announcement
          ELSE DictSet(PEERS, dg.id,
                       [ addr |-> PeerAddress(ip, dg),
                         last_seen |-> discNow,
                         healthy |-> KnownHealthy(PEERS, dg.id),
                         is_local |-> FALSE ])
    /\ discDatagrams' = discDatagrams + 1
    /\ discOp' = "listen_and_process"
    /\ discLast' = [dg |-> dg, ip |-> ip]
    /\ UNCHANGED <<peerFile, discNow, savedPeers, daemon>>

\* (mutation of ToRemove: an entry exactly PEER_TIMEOUT old is stale too)
ToRemoveInclusive(d, now) ==
    {d[i].key : i \in {j \in DOMAIN d :
                         /\ d[j].key # NODE_ID
                         /\ now - d[j].info.last_seen >= PEER_TIMEOUT}}

\* the keys cleanup_peers collects in to_remove
ToRemove(d, now) ==
    {d[i].key : i \in {j \in DOMAIN d :
                         /\ d[j].key # NODE_ID
                         /\ now - d[j].info.last_seen > PEER_TIMEOUT}}

\* cleanup_peers, run to its end
DiscCleanupPeers ==
    /\ PEERS' = DictWithout(PEERS, ToRemove(PEERS, discNow))
    /\ discOp' = "cleanup_peers"
    /\ UNCHANGED <<peerFile, discNow, discDatagrams, savedPeers, discLast, daemon>>

\* time passes
DiscTick(d) ==
    /\ discNow + d <= MaxDiscTime
    /\ discNow' = discNow + d
    /\ discOp' = "sleep"
    /\ UNCHANGED <<PEERS, peerFile, discDatagrams, savedPeers, discLast, daemon>>

(***************************************************************************)
(*                 Discovery daemon: the main thread's loop                *)
(***************************************************************************)

\* Bound of the daemon runs.
MaxDaemonTime == 6      \* seconds the daemon's clock reaches

\* ANNOUNCEMENT_INTERVAL
ANNOUNCEMENT_INTERVAL == 3
\* `last_save = 0` lies this many seconds before the daemon's start, the
\* clock being counted from that start
DaemonEpoch == 1000
\* save_peers runs when more than this many seconds passed since the last save
SaveInterval == 1

\* the positions at which the main thread is inside its `while True`
DaemonRunning == {"announce", "cleanup", "iterate", "delete", "save", "saving", "sleep"}

\* __main__: load_peers(), then multicast_daemon() up to the start of the
\* listener thread and `last_save = 0`
DaemonStart ==
    /\ daemon.pc = "unstarted"
    /\ PEERS' = IF peerFile.exists THEN JsonLoads(peerFile.items, <<>>) ELSE PEERS
    /\ daemon' = [daemon EXCEPT !.pc = "announce", !.last_save = 0 - DaemonEpoch]
    /\ discOp' = "multicast_daemon"
    /\ UNCHANGED <<peerFile, discNow, discDatagrams, savedPeers, discLast>>

\* announce_presence(send_sock): when sendto raises, the except clause logs
\* and the node's own entry is not written
DaemonAnnounce(sent) ==
    /\ daemon.pc = "announce"
    /\ PEERS' = IF sent
                THEN DictSet(PEERS, NODE_ID,
                             [ addr |-> [t |-> "tuple", host |-> "127.0.0.1", port |-> DefaultGrpcPort],
                               last_seen |-> discNow, healthy |-> TRUE, is_local |-> TRUE ])
                ELSE PEERS
    /\ daemon' = [daemon EXCEPT !.pc = "cleanup"]
    /\ discOp' = "announce_presence"
    /\ UNCHANGED <<peerFile, discNow, discDatagrams, savedPeers, discLast>>

\* cleanup_peers: `to_remove = []`, `current_time = time.time()`, and the
\* iterator of `for peer_id, info in PEERS.items()`, which remembers the size
\* of the dict
DaemonCleanupBegin ==
    /\ daemon.pc = "cleanup"
    /\ daemon' = [daemon EXCEPT !.pc = "iterate", !.to_remove = {}, !.current_time = discNow,
                                !.used = Len(PEERS), !.i = 1]
    /\ discOp' = "cleanup_peers: begin"
    /\ UNCHANGED <<PEERS, peerFile, discNow, discDatagrams, savedPeers, discLast>>

\* cleanup_peers: one step of the iterator. A dict whose size changed since
\* the iterator was made raises RuntimeError; cleanup_peers has no try, and
\* the `except Exception` of multicast_daemon ends the loop and closes the
\* sockets. Otherwise the next item is tested, or the loop is over.
DaemonCleanupIterate ==
    /\ daemon.pc = "iterate"
    /\ daemon' =
          IF Len(PEERS) # daemon.used
          THEN [daemon EXCEPT !.pc = "crashed"]
          ELSE IF daemon.i > Len(PEERS)
               THEN [daemon EXCEPT !.pc = "delete"]
               ELSE [daemon EXCEPT
                        !.i = @ + 1,
                        !.to_remove =
                            IF /\ PEERS[daemon.i].key # NODE_ID
                               /\ daemon.current_time - PEERS[daemon.i].info.last_seen > PEER_TIMEOUT
                            THEN @ \cup {PEERS[daemon.i].key} ELSE @]
    /\ discOp' = "cleanup_peers: iterate"
    /\ UNCHANGED <<PEERS, peerFile, discNow, discDatagrams, savedPeers, discLast>>

\* cleanup_peers: `for peer_id in to_remove: del PEERS[peer_id]`
DaemonCleanupDelete ==
    /\ daemon.pc = "delete"
    /\ PEERS' = DictWithout(PEERS, daemon.to_remove)
    /\ daemon' = [daemon EXCEPT !.pc = "save", !.to_remove = {}, !.i = 0, !.used = 0]
    /\ discOp' = "cleanup_peers: delete"
    /\ UNCHANGED <<peerFile, discNow, discDatagrams, savedPeers, discLast>>

\* `if time.time() - last_save > 1:` and, in save_peers, the iterator of
\* `for pid, info in PEERS.items()`
DaemonSaveBegin ==
    /\ daemon.pc = "save"
    /\ daemon' = IF discNow - daemon.last_save > SaveInterval
                 THEN [daemon EXCEPT !.pc = "saving", !.used = Len(PEERS)]
                 ELSE [daemon EXCEPT !.pc = "sleep"]
    /\ discOp' = "save_peers: begin"
    /\ UNCHANGED <<PEERS, peerFile, discNow, discDatagrams, savedPeers, discLast>>

\* save_peers to its end, and `last_save = time.time()`: when the dict changed
\* size under the iterator, the RuntimeError is logged by save_peers' own
\* except clause and the file is not written
DaemonSaveEnd ==
    /\ daemon.pc = "saving"
    /\ IF Len(PEERS) # daemon.used
       THEN UNCHANGED <<peerFile, savedPeers>>
       ELSE /\ peerFile' = [exists |-> TRUE, items |-> JsonDumps(PEERS)]
            /\ savedPeers' = PEERS
    /\ daemon' = [daemon EXCEPT !.pc = "sleep", !.last_save = discNow, !.used = 0]
    /\ discOp' = "save_peers: end"
    /\ UNCHANGED <<PEERS, discNow, discDatagrams, discLast>>

\* time.sleep(ANNOUNCEMENT_INTERVAL)
DaemonSleep ==
    /\ daemon.pc = "sleep"
    /\ discNow + ANNOUNCEMENT_INTERVAL <= MaxDaemonTime
    /\ discNow' = discNow + ANNOUNCEMENT_INTERVAL
    /\ daemon' = [daemon EXCEPT !.pc = "announce"]
    /\ discOp' = "sleep"
    /\ UNCHANGED <<PEERS, peerFile, discDatagrams, savedPeers, discLast>>

\* KeyboardInterrupt in the main thread: the loop ends, the sockets are closed
DaemonInterrupt ==
    /\ daemon.pc \in DaemonRunning
    /\ daemon' = [daemon EXCEPT !.pc = "interrupted"]
    /\ discOp' = "KeyboardInterrupt"
    /\ UNCHANGED <<PEERS, peerFile, discNow, discDatagrams, savedPeers, discLast>>

\* the listener thread, which lives as long as the main thread is in its loop
DaemonListen(dg, ip) ==
    /\ daemon.pc \in DaemonRunning
    /\ DiscListen(dg, ip)

\* ---- a daemon started over the registry of an earlier run ----

\* NODE_ID is drawn anew by every process: the node id of the earlier run
EarlierNodeId == PyStr("earlier-uuid")

\* how many seconds before this run's start the earlier run last wrote its
\* entries: a restart right away, and one after more than PEER_TIMEOUT
EarlierAges == {2, 20}

\* the PEERS of the earlier run when it saved last: its own entry, written by
\* its announce_presence, and a peer its listener had heard
EarlierPeers(age) ==
    << [ key |-> EarlierNodeId,
         info |-> [ addr |-> [t |-> "tuple", host |-> "127.0.0.1", port |-> DefaultGrpcPort],
                    last_seen |-> 0 - age, healthy |-> TRUE, is_local |-> TRUE ] ],
       [ key |-> PyStr("peer-a"),
         info |-> [ addr |-> [t |-> "tuple", host |-> "10.0.0.5", port |-> DefaultGrpcPort],
                    last_seen |-> 0 - age, healthy |-> TRUE, is_local |-> FALSE ] ] >>

\* the module as imported by a process that finds the file save_peers wrote
\* in the earlier run
DiscRestartInit ==
    /\ PEERS = <<>>
    /\ \E age \in EarlierAges : peerFile = [exists |-> TRUE, items |-> JsonDumps(EarlierPeers(age))]
    /\ discNow = 0
    /\ discDatagrams = 0
    /\ discOp = "import"
    /\ savedPeers = <<>>
    /\ discLast = NoDatagram
    /\ daemon = DaemonIdle

(***************************************************************************)
(*                  IntegrationManager: the message bus                    *)
(***************************************************************************)

\* Bound of the bus runs.
MaxSendCalls == 3      \* send_to_lambda and send_to_omega calls

\* the values of the MessageType enumeration
MessageTypeValues ==
    { "health_check", "theta_update", "lambda_request", "lambda_response",
      "time_wrap_request", "time_wrap_result", "threat_alert", "resource_update" }

\* The messages callers hand to the bus: dicts whose "type" is a MessageType
\* value, a dict whose "type" is none, and a value that is no dict.
Messages ==
    { [dict |-> TRUE, type |-> "health_check"],
      [dict |-> TRUE, type |-> "theta_update"],
      [dict |-> TRUE, type |-> "bogus"],
      [dict |-> FALSE, type |-> ""] }

\* the types callers register handlers for, and how a handler may end
HandlerTypes == {"health_check"}
HandlerBehaviours == {"returns", "raises"}

\* handlers that enqueue a follow-up message while they are dispatched, by
\* send_to_lambda or by send_to_omega, and the follow-up they enqueue
SendingBehaviours == {"sends_to_lambda", "sends_to_omega"}
FollowUp == [dict |-> TRUE, type |-> "theta_update"]

\* the threads that call send_to_lambda and send_to_omega
Senders == {"s1", "s2"}
Directions == {"to_lambda", "to_omega"}

\* MessageType(message.get("type")) raises AttributeError on a value that is
\* no dict and ValueError on a type outside the enumeration
TypeLookupRaises(message) == ~message.dict \/ message.type \notin MessageTypeValues

\* the lock send_to_lambda and send_to_omega take
SendLock(dir) == IF dir = "to_lambda" THEN "omega_lock" ELSE "lambda_lock"

\* the direction a sending handler sends in
HandlerDirection(behaviour) == IF behaviour = "sends_to_lambda" THEN "to_lambda" ELSE "to_omega"

\* The `while queue:` loop of process_message_queue on one queue, run under
\* that queue's lock: each envelope is popped and its handler, if one is
\* registered, is called; an exception of the type lookup leaves the loop and
\* the call, an exception of a handler is counted.  A handler that sends
\* runs send_to_lambda or send_to_omega in the draining thread: the send
\* takes its lock with `with`, and threading.Lock is not reentrant, so a
\* send for the lock the loop holds never returns; a send for the other
\* lock appends its envelope to the other queue and counts it.
RECURSIVE Drain(_, _)
Drain(q, acc) ==
    IF q = <<>> THEN [acc EXCEPT !.queue = <<>>]
    ELSE LET message == Head(q).message
             popped == [acc EXCEPT !.taken = @ + 1]
         IN  IF TypeLookupRaises(message)
             THEN [popped EXCEPT !.queue = Tail(q), !.raised = TRUE]
             ELSE IF message.type \in DOMAIN message_handlers
                  THEN LET behaviour == message_handlers[message.type]
                       IN  IF behaviour = "returns"
                           THEN Drain(Tail(q), [popped EXCEPT !.received = @ + 1])
                           ELSE IF behaviour = "raises"
                           THEN Drain(Tail(q), [popped EXCEPT !.errors = @ + 1,
                                                              !.failed = @ + 1])
                           ELSE IF SendLock(HandlerDirection(behaviour)) = acc.lock
                           THEN [popped EXCEPT !.queue = Tail(q), !.blocked = TRUE]
                           ELSE Drain(Tail(q),
                                      [popped EXCEPT
                                          !.other = Append(@, [timestamp |-> acc.enqueued,
                                                               message |-> FollowUp]),
                                          !.enqueued = @ + 1,
                                          !.sent = @ + 1,
                                          !.received = @ + 1])
                  ELSE Drain(Tail(q), popped)

\* the process_message_queue thread before a call; during and after a call
\* it records how the call ended, whether a send call ran alongside it, the
\* envelopes both queues held when it began, those it popped, the handler
\* failures it met and the counters as they stood when it began
PmqIdle ==
    [ pc |-> "idle", outcome |-> "none", clean |-> TRUE,
      held |-> 0, taken |-> 0, failed |-> 0, received0 |-> 0, errors0 |-> 0 ]

BusIdle ==
    /\ omega_to_lambda_queue = <<>>
    /\ lambda_to_omega_queue = <<>>
    /\ omega_lock = ""
    /\ lambda_lock = ""
    /\ message_handlers = <<>>
    /\ messages_sent = 0
    /\ messages_received = 0
    /\ errors = 0
    /\ senders = [s \in Senders |-> [pc |-> "idle", dir |-> "", dict |-> TRUE, tmp |-> 0]]
    /\ pmq = PmqIdle
    /\ busEnqueued = 0
    /\ busSendCalls = 0
    /\ busTrue = 0

\* IntegrationManager.__init__
BusInit == BusIdle

\* register_handler(msg_type, handler)
RegisterHandler(type, behaviour) ==
    /\ message_handlers' =
          [t \in DOMAIN message_handlers \cup {type} |->
              IF t = type THEN behaviour ELSE message_handlers[t]]
    /\ UNCHANGED <<omega_to_lambda_queue, lambda_to_omega_queue, omega_lock, lambda_lock,
                   messages_sent, messages_received, errors, senders, pmq,
                   busEnqueued, busSendCalls, busTrue>>

\* the envelope a send call appends; the count of earlier envelopes stands for time.time()
Envelope(message) == [timestamp |-> busEnqueued, message |-> message]

\* send_to_lambda / send_to_omega: the lock is taken and the envelope appended
SendAppend(s, dir, message) ==
    /\ senders[s].pc = "idle"
    /\ IF dir = "to_lambda"
       THEN /\ omega_lock = ""
            /\ omega_lock' = s
            /\ omega_to_lambda_queue' = Append(omega_to_lambda_queue, Envelope(message))
            /\ UNCHANGED <<lambda_lock, lambda_to_omega_queue>>
       ELSE /\ lambda_lock = ""
            /\ lambda_lock' = s
            /\ lambda_to_omega_queue' = Append(lambda_to_omega_queue, Envelope(message))
            /\ UNCHANGED <<omega_lock, omega_to_lambda_queue>>
    /\ senders' = [senders EXCEPT ![s] = [pc |-> "read", dir |-> dir,
                                          dict |-> message.dict, tmp |-> 0]]
    /\ pmq' = [pmq EXCEPT !.clean = FALSE]
    /\ busEnqueued' = busEnqueued + 1
    /\ busSendCalls' = busSendCalls + 1
    /\ UNCHANGED <<message_handlers, messages_sent, messages_received, errors, busTrue>>

\* `self.messages_sent += 1`: the read
SendRead(s) ==
    /\ senders[s].pc = "read"
    /\ senders' = [senders EXCEPT ![s].pc = "write", ![s].tmp = messages_sent]
    /\ UNCHANGED <<omega_to_lambda_queue, lambda_to_omega_queue, omega_lock, lambda_lock,
                   message_handlers, messages_sent, messages_received, errors, pmq,
                   busEnqueued, busSendCalls, busTrue>>

\* the value `self.messages_sent += 1` stores, from the value it read
SentStored(read) == read + 1

\* `self.messages_sent += 1`: the write; then the debug line reads
\* message.get('type'), which raises on a value that is no dict: the call
\* then counts an error and returns False, else it returns True; the lock
\* is released either way
SendWrite(s) ==
    /\ senders[s].pc = "write"
    /\ messages_sent' = SentStored(senders[s].tmp)
    /\ errors' = IF senders[s].dict THEN errors ELSE errors + 1
    /\ busTrue' = IF senders[s].dict THEN busTrue + 1 ELSE busTrue
    /\ IF senders[s].dir = "to_lambda"
       THEN omega_lock' = "" /\ UNCHANGED lambda_lock
       ELSE lambda_lock' = "" /\ UNCHANGED omega_lock
    /\ senders' = [senders EXCEPT ![s] = [pc |-> "idle", dir |-> "", dict |-> TRUE, tmp |-> 0]]
    /\ UNCHANGED <<omega_to_lambda_queue, lambda_to_omega_queue, message_handlers,
                   messages_received, pmq, busEnqueued, busSendCalls>>

\* what a drain starts from: the lock it holds and the other queue
DrainStart(lock, other, taken, failed) ==
    [ queue |-> <<>>, raised |-> FALSE, blocked |-> FALSE, lock |-> lock,
      other |-> other, enqueued |-> busEnqueued, sent |-> messages_sent,
      taken |-> taken, failed |-> failed,
      received |-> messages_received, errors |-> errors ]

\* how a drain leaves process_message_queue
DrainOutcome(r, next) ==
    IF r.blocked THEN "blocked" ELSE IF r.raised THEN "raised" ELSE next

\* process_message_queue: the Omega -> Lambda queue is drained under omega_lock
PmqOmega ==
    /\ pmq.pc = "idle"
    /\ omega_lock = ""
    /\ LET r == Drain(omega_to_lambda_queue,
                      DrainStart("omega_lock", lambda_to_omega_queue, 0, 0))
       IN  /\ omega_to_lambda_queue' = r.queue
           /\ lambda_to_omega_queue' = r.other
           /\ omega_lock' = IF r.blocked THEN "pmq" ELSE ""
           /\ messages_received' = r.received
           /\ messages_sent' = r.sent
           /\ busEnqueued' = r.enqueued
           /\ errors' = r.errors
           /\ pmq' = [ pc |-> IF r.blocked THEN "blocked"
                              ELSE IF r.raised THEN "idle" ELSE "lambda",
                       outcome |-> DrainOutcome(r, "running"),
                       clean |-> \A s \in Senders : senders[s].pc = "idle",
                       held |-> Len(omega_to_lambda_queue) + Len(lambda_to_omega_queue),
                       taken |-> r.taken, failed |-> r.failed,
                       received0 |-> messages_received, errors0 |-> errors ]
    /\ UNCHANGED <<lambda_lock, message_handlers, senders, busSendCalls, busTrue>>

\* process_message_queue: the Lambda -> Omega queue is drained under lambda_lock
PmqLambda ==
    /\ pmq.pc = "lambda"
    /\ lambda_lock = ""
    /\ LET r == Drain(lambda_to_omega_queue,
                      DrainStart("lambda_lock", omega_to_lambda_queue, pmq.taken, pmq.failed))
       IN  /\ lambda_to_omega_queue' = r.queue
           /\ omega_to_lambda_queue' = r.other
           /\ lambda_lock' = IF r.blocked THEN "pmq" ELSE ""
           /\ messages_received' = r.received
           /\ messages_sent' = r.sent
           /\ busEnqueued' = r.enqueued
           /\ errors' = r.errors
           /\ pmq' = [pmq EXCEPT !.pc = IF r.blocked THEN "blocked" ELSE "idle",
                                 !.outcome = DrainOutcome(r, "returned"),
                                 !.taken = r.taken, !.failed = r.failed]
    /\ UNCHANGED <<omega_lock, message_handlers, senders, busSendCalls, busTrue>>

(***************************************************************************)
(*                             PulseFractal                                *)
(***************************************************************************)

\* Bounds of the heartbeat runs.
MaxBeatThreads == 2    \* beat threads ever started
MaxWraps == 3          \* time_wrap calls made by the beat threads

BeatThreads == 1..MaxBeatThreads

\* how the arbiter's time_wrap ends when a beat calls it
WrapOutcomes == {"returns", "raises"}

\* a beat thread that was not started yet
NoBeat == [pc |-> "unborn", rc |-> 0, rt |-> 0, calls |-> 0, raisedAt |-> 0]

PulseIdle ==
    /\ pulse_alive = FALSE
    /\ beat_count = 0
    /\ total_beats = 0
    /\ beats = [t \in BeatThreads |-> NoBeat]
    /\ pulseWraps = 0

\* PulseFractal.__init__
PulseInit == PulseIdle

\* PulseFractal.start(): returns at once on a running pulse, else sets the
\* flag, resets beat_count in the calling thread and starts a new daemon
\* thread running beat()
PulseStart ==
    /\ ~pulse_alive
    /\ \E t \in BeatThreads :
          /\ beats[t].pc = "unborn"
          /\ \A u \in BeatThreads : u < t => beats[u].pc # "unborn"
          /\ beats' = [beats EXCEPT ![t].pc = "top"]
    /\ pulse_alive' = TRUE
    /\ beat_count' = 0
    /\ UNCHANGED <<total_beats, pulseWraps>>

\* PulseFractal.stop(): clears the flag and logs the final statistics; the
\* beat thread is neither joined nor signalled
PulseStop ==
    /\ pulse_alive
    /\ pulse_alive' = FALSE
    /\ UNCHANGED <<beat_count, total_beats, beats, pulseWraps>>

\* beat(): `while self.alive`
BeatTop(t) ==
    /\ beats[t].pc = "top"
    /\ beats' = [beats EXCEPT ![t].pc = IF pulse_alive THEN "wrap" ELSE "exited"]
    /\ UNCHANGED <<pulse_alive, beat_count, total_beats, pulseWraps>>

\* beat(): `results = self.lambda_arbiter.time_wrap()`; when it returns,
\* log_pulse(results) (which swallows its own errors) and the read of
\* `self.beat_count += 1`; when it raises, control is in the except clause
BeatWrap(t, outcome) ==
    /\ beats[t].pc = "wrap"
    /\ pulseWraps' = pulseWraps + 1
    /\ beats' = IF outcome = "returns"
                THEN [beats EXCEPT ![t].pc = "count", ![t].rc = beat_count,
                                   ![t].calls = @ + 1]
                ELSE [beats EXCEPT ![t].pc = "except", ![t].calls = @ + 1,
                                   ![t].raisedAt = beats[t].calls + 1]
    /\ UNCHANGED <<pulse_alive, beat_count, total_beats>>

\* beat(): the write of `self.beat_count += 1` and the read of
\* `self.total_beats += 1`
BeatCount(t) ==
    /\ beats[t].pc = "count"
    /\ beat_count' = beats[t].rc + 1
    /\ beats' = [beats EXCEPT ![t].pc = "total", ![t].rt = total_beats]
    /\ UNCHANGED <<pulse_alive, total_beats, pulseWraps>>

\* beat(): the write of `self.total_beats += 1`, _update_metrics and the sleep
\* that ends the iteration
BeatTotal(t) ==
    /\ beats[t].pc = "total"
    /\ total_beats' = beats[t].rt + 1
    /\ beats' = [beats EXCEPT ![t].pc = "top", ![t].rc = 0, ![t].rt = 0]
    /\ UNCHANGED <<pulse_alive, beat_count, pulseWraps>>

\* (mutation of BeatExcept: the except clause leaves the loop)
BeatExceptExits(t) ==
    /\ beats[t].pc = "except"
    /\ beats' = [beats EXCEPT ![t].pc = "exited"]
    /\ UNCHANGED <<pulse_alive, beat_count, total_beats, pulseWraps>>

\* beat(): `except Exception`: the error is logged, the thread sleeps one
\* cycle time and the loop goes on
BeatExcept(t) ==
    /\ beats[t].pc = "except"
    /\ beats' = [beats EXCEPT ![t].pc = "top"]
    /\ UNCHANGED <<pulse_alive, beat_count, total_beats, pulseWraps>>

\* one step of a beat thread
BeatStep(t) ==
    \/ BeatTop(t)
    \/ \E outcome \in WrapOutcomes : BeatWrap(t, outcome)
    \/ BeatCount(t)
    \/ BeatTotal(t)
    \/ BeatExcept(t)

(***************************************************************************)
(*               IntegrationManager: the Lambda components                 *)
(***************************************************************************)

\* Bound of the manager runs.
MaxMgrCalls == 4       \* calls made on the manager and on the components it holds

\* The names bound at module level in integration_manager.py. LambdaArbiter,
\* PulseFractal, Mesh and NanoBot are imported inside __init__ and so are
\* locals of __init__: no other method can see them.
ModuleNames ==
    {"json", "logging", "threading", "time", "Dict", "Any", "Optional", "Callable",
     "dataclass", "Enum", "logger", "MessageType", "OmegaHealth", "LambdaRequest",
     "LambdaResponse", "IntegrationManager", "get_integration_manager"}

\* evaluating a bare name in a method raises NameError unless it is bound
NameBound(name) == name \in ModuleNames

Components == {"arbiter", "mesh", "pulse"}

\* the class of the object each attribute is meant to hold
ClassOf(c) ==
    CASE c = "arbiter" -> "LambdaArbiter"
      [] c = "mesh" -> "Mesh"
      [] OTHER -> "PulseFractal"

\* the outcome of a call: what it returned, or that it raised
NoCall == [op |-> "", ret |-> "None", raised |-> FALSE]
Returned(op, ret) == [op |-> op, ret |-> ret, raised |-> FALSE]
Raised(op, exc) == [op |-> op, ret |-> exc, raised |-> TRUE]

\* `if self.pulse:` / `if self.mesh:` (none of the classes defines __bool__ or __len__)
Truthy(ref) == ref # "None"

\* (mutation of Falsy: the guard of an uninitialized component never fires)
FalsyNever(ref) == FALSE

\* `if not self.mesh:` / `if not self.arbiter:` / `if not self.pulse:`
Falsy(ref) == ref = "None"

\* a method call on the object an attribute holds: on None it raises
Delegated(ref, op, ret) ==
    IF ref = "None" THEN Raised(op, "AttributeError") ELSE Returned(op, ret)

\* time.time() at a call, as the index of the call
MgrNow == mgrCalls + 1

MgrIdle ==
    /\ arbiter = "None"
    /\ mesh = "None"
    /\ pulse = "None"
    /\ active = FALSE
    /\ last_omega_heartbeat = 0
    /\ last_lambda_heartbeat = 0
    /\ mgrCall = NoCall
    /\ mgrCalls = 0

\* IntegrationManager.__init__: the three attributes are None, active is False
MgrInit == MgrIdle

\* The three attributes are public. A host that builds components itself
\* assigns them: `mgr.arbiter = LambdaArbiter()`, `mgr.mesh = Mesh()`,
\* `mgr.pulse = PulseFractal(mgr.arbiter)`; the Mesh and the PulseFractal are
\* the ones modelled above, as constructed.
HostAttach(S) ==
    /\ S # {}
    /\ "pulse" \in S => (arbiter # "None" \/ "arbiter" \in S)
    /\ \A c \in S : (CASE c = "arbiter" -> arbiter [] c = "mesh" -> mesh [] OTHER -> pulse) = "None"
    /\ arbiter' = IF "arbiter" \in S THEN ClassOf("arbiter") ELSE arbiter
    /\ mesh' = IF "mesh" \in S THEN ClassOf("mesh") ELSE mesh
    /\ pulse' = IF "pulse" \in S THEN ClassOf("pulse") ELSE pulse
    /\ mgrCall' = Returned("attach", "None")
    /\ mgrCalls' = mgrCalls + 1
    /\ UNCHANGED <<active, last_omega_heartbeat, last_lambda_heartbeat, meshVars, pulseVars>>

\* `mgr.mesh.start()` by the host
HostStartMesh ==
    /\ Truthy(mesh)
    /\ MeshStart
    /\ mgrCall' = Returned("mesh.start", "None")
    /\ mgrCalls' = mgrCalls + 1
    /\ UNCHANGED <<arbiter, mesh, pulse, active, last_omega_heartbeat,
                   last_lambda_heartbeat, pulseVars>>

\* `mgr.pulse.start()` by the host
HostStartPulse ==
    /\ Truthy(pulse)
    /\ PulseStart
    /\ mgrCall' = Returned("pulse.start", "None")
    /\ mgrCalls' = mgrCalls + 1
    /\ UNCHANGED <<arbiter, mesh, pulse, active, last_omega_heartbeat,
                   last_lambda_heartbeat, meshVars>>

\* Mesh.start() as a call: a no-op on a running mesh
MeshStartCall == IF alive THEN UNCHANGED meshVars ELSE MeshStart

\* Mesh.stop() as a call: a no-op on a mesh that is not running
MeshStopCall == IF alive THEN MeshStop ELSE UNCHANGED meshVars

\* PulseFractal.start() as a call: a no-op on a running pulse
PulseStartCall == IF pulse_alive THEN UNCHANGED pulseVars ELSE PulseStart

\* (mutation of PulseStopCall: the heartbeat is left as it is)
PulseStopSkipped == UNCHANGED pulseVars

\* PulseFractal.stop() as a call: a no-op on a pulse that is not running
PulseStopCall == IF pulse_alive THEN PulseStop ELSE UNCHANGED pulseVars

\* IntegrationManager.initialize_lambda(): each component that is None is
\* constructed from its class name; the first name that is not bound raises
\* NameError, which the except clause turns into `return False`, keeping what
\* was assigned before it
InitializeLambda ==
    LET arbiterOk == arbiter # "None" \/ NameBound("LambdaArbiter")
        meshOk == arbiterOk /\ (mesh # "None" \/ NameBound("Mesh"))
        pulseOk == meshOk /\ (pulse # "None" \/ NameBound("PulseFractal"))
    IN  /\ arbiter' = IF arbiter = "None" /\ arbiterOk THEN "LambdaArbiter" ELSE arbiter
        /\ IF mesh = "None" /\ meshOk
           THEN mesh' = "Mesh" /\ MeshStartCall
           ELSE mesh' = mesh /\ UNCHANGED meshVars
        /\ IF pulse = "None" /\ pulseOk
           THEN pulse' = "PulseFractal" /\ PulseStartCall
           ELSE pulse' = pulse /\ UNCHANGED pulseVars
        /\ active' = IF pulseOk THEN TRUE ELSE active
        /\ mgrCall' = Returned("initialize_lambda", IF pulseOk THEN "True" ELSE "False")
        /\ mgrCalls' = mgrCalls + 1
        /\ UNCHANGED <<last_omega_heartbeat, last_lambda_heartbeat>>

\* the role populate_nanobots gives to nano_i: roles[i % 4]
PopulateRole(n) ==
    CASE n = "nano_1" -> "signal_relay"
      [] n = "nano_2" -> "knowledge_keeper"
      [] OTHER -> "generic"

\* IntegrationManager.populate_nanobots(count): without a mesh it logs and
\* returns; else `NanoBot(...)` is evaluated inside the try, and a NameError
\* is logged by the except clause
PopulateNanobots(new) ==
    /\ IF Falsy(mesh)
       THEN UNCHANGED meshVars
       ELSE IF mesh = "None" \/ ~NameBound("NanoBot")
            THEN UNCHANGED meshVars
            ELSE /\ nodes' = [m \in DOMAIN nodes \cup new |->
                                 IF m \in new THEN NewNanoBot(PopulateRole(m)) ELSE nodes[m]]
                 /\ nodeOrder' = nodeOrder \o SelectSeq(<<"nano_1", "nano_2", "nano_3">>,
                                     LAMBDA m : m \in new /\ m \notin DOMAIN nodes)
                 /\ total_nodes' = total_nodes + Cardinality(new)
                 /\ UNCHANGED <<message_queue, alive, signal_log, messages_delivered,
                                messages_dropped, loops, meshExpect, meshEnqueued, meshCalls>>
    /\ mgrCall' = Returned("populate_nanobots", "None")
    /\ mgrCalls' = mgrCalls + 1
    /\ UNCHANGED <<arbiter, mesh, pulse, active, last_omega_heartbeat,
                   last_lambda_heartbeat, pulseVars>>

\* IntegrationManager.process_health_data(health_data): an error record
\* without an arbiter; else what time_wrap returns, or an error record when
\* time_wrap raises
ProcessHealthData(outcome) ==
    /\ mgrCall' = IF Falsy(arbiter)
                  THEN Returned("process_health_data", "error: Lambda Arbiter not initialized")
                  ELSE IF arbiter = "None" \/ outcome = "raises"
                       THEN Returned("process_health_data", "error: raised")
                       ELSE Returned("process_health_data", "results")
    /\ mgrCalls' = mgrCalls + 1
    /\ UNCHANGED <<arbiter, mesh, pulse, active, last_omega_heartbeat,
                   last_lambda_heartbeat, meshVars, pulseVars>>

\* IntegrationManager.get_mesh_vitals()
GetMeshVitals ==
    /\ mgrCall' = IF Falsy(mesh)
                  THEN Returned("get_mesh_vitals", "error: Mesh not initialized")
                  ELSE Delegated(mesh, "get_mesh_vitals", "vitals")
    /\ mgrCalls' = mgrCalls + 1
    /\ UNCHANGED <<arbiter, mesh, pulse, active, last_omega_heartbeat,
                   last_lambda_heartbeat, meshVars, pulseVars>>

\* IntegrationManager.get_pulse_vitals()
GetPulseVitals ==
    /\ mgrCall' = IF Falsy(pulse)
                  THEN Returned("get_pulse_vitals", "error: Pulse not initialized")
                  ELSE Delegated(pulse, "get_pulse_vitals", "vitals")
    /\ mgrCalls' = mgrCalls + 1
    /\ UNCHANGED <<arbiter, mesh, pulse, active, last_omega_heartbeat,
                   last_lambda_heartbeat, meshVars, pulseVars>>

\* IntegrationManager.broadcast_message(sender, message)
BroadcastMessage(sender, data) ==
    /\ IF Falsy(mesh)
       THEN mgrCall' = Returned("broadcast_message", "None") /\ UNCHANGED meshVars
       ELSE /\ mgrCall' = Delegated(mesh, "broadcast_message", "None")
            /\ IF mesh = "None" THEN UNCHANGED meshVars ELSE MeshBroadcast(sender, data)
    /\ mgrCalls' = mgrCalls + 1
    /\ UNCHANGED <<arbiter, mesh, pulse, active, last_omega_heartbeat,
                   last_lambda_heartbeat, pulseVars>>

\* IntegrationManager.collect_omega_health(health)
CollectOmegaHealth ==
    /\ last_omega_heartbeat' = MgrNow
    /\ mgrCall' = Returned("collect_omega_health", "health_data")
    /\ mgrCalls' = mgrCalls + 1
    /\ UNCHANGED <<arbiter, mesh, pulse, active, last_lambda_heartbeat, meshVars, pulseVars>>

\* IntegrationManager.process_lambda_response(response_data)
ProcessLambdaResponse ==
    /\ last_lambda_heartbeat' = MgrNow
    /\ mgrCall' = Returned("process_lambda_response", "response")
    /\ mgrCalls' = mgrCalls + 1
    /\ UNCHANGED <<arbiter, mesh, pulse, active, last_omega_heartbeat, meshVars, pulseVars>>

\* IntegrationManager.shutdown(): stops the pulse and the mesh it holds and
\* clears active. Neither stop() raises (both only test and clear a flag and
\* log), so the except clause is never entered.
Shutdown ==
    /\ IF Truthy(pulse) THEN PulseStopCall ELSE UNCHANGED pulseVars
    /\ IF Truthy(mesh) THEN MeshStopCall ELSE UNCHANGED meshVars
    /\ active' = FALSE
    /\ mgrCall' = Returned("shutdown", "None")
    /\ mgrCalls' = mgrCalls + 1
    /\ UNCHANGED <<arbiter, mesh, pulse, last_omega_heartbeat, last_lambda_heartbeat>>

(***************************************************************************)
(*        Host bridge: the IntegrationManager of the Android side          *)
(***************************************************************************)

\* Bound of the host-bridge runs.
MaxNanobots == 5        \* the largest nanobot_count passed to start_organism

\* the list start_organism indexes with i % 4
BridgeRoles == <<"memory_carrier", "signal_relay", "knowledge_keeper", "generic">>

\* f"nanobot-{i}"
BridgeNodeId(i) == "nanobot-" \o ToString(i)

\* ["memory_carrier", "signal_relay", "knowledge_keeper", "generic"][i % 4]
BridgeRole(i) == BridgeRoles[(i % Len(BridgeRoles)) + 1]

\* the ids of range(nanobot_count) that add_node appends to the dict's order
RECURSIVE BridgeNewIds(_, _, _)
BridgeNewIds(known, i, n) ==
    IF i >= n THEN <<>>
    ELSE IF BridgeNodeId(i) \in known
         THEN BridgeNewIds(known, i + 1, n)
         ELSE <<BridgeNodeId(i)>> \o BridgeNewIds(known, i + 1, n)

\* IntegrationManager.__init__ of the bridge: an arbiter and a mesh are
\* constructed, pulse is None
BridgeInit ==
    /\ arbiter = ClassOf("arbiter")
    /\ mesh = ClassOf("mesh")
    /\ pulse = "None"
    /\ active = FALSE
    /\ last_omega_heartbeat = 0
    /\ last_lambda_heartbeat = 0
    /\ mgrCall = NoCall
    /\ mgrCalls = 0

\* start_organism(nanobot_count): `self.mesh.add_node(f"nanobot-{i}", role)`
\* for each i of range(nanobot_count) (the node stored is the role string),
\* then `self.pulse = PulseFractal(self.arbiter)`: the heartbeat is
\* constructed (alive False, counters 0) and start() is not called on it
StartOrganism(n) ==
    /\ nodes' = [m \in DOMAIN nodes \cup {BridgeNodeId(i) : i \in 0..(n - 1)} |->
                   IF \E i \in 0..(n - 1) : m = BridgeNodeId(i)
                   THEN [str |-> BridgeRole(CHOOSE i \in 0..(n - 1) : m = BridgeNodeId(i))]
                   ELSE nodes[m]]
    /\ nodeOrder' = nodeOrder \o BridgeNewIds(DOMAIN nodes, 0, n)
    /\ total_nodes' = total_nodes + n
    /\ pulse' = ClassOf("pulse")
    /\ pulse_alive' = FALSE
    /\ beat_count' = 0
    /\ total_beats' = 0
    /\ mgrCall' = Returned("start_organism",
                           [status |-> "started", nanobots |-> n,
                            mesh_nodes |-> Cardinality(DOMAIN nodes')])
    /\ mgrCalls' = mgrCalls + 1
    /\ UNCHANGED <<arbiter, mesh, active, last_omega_heartbeat, last_lambda_heartbeat,
                   message_queue, alive, signal_log, messages_delivered, messages_dropped,
                   loops, meshExpect, meshEnqueued, meshCalls, beats, pulseWraps>>

\* process_health(health_data): the result of arbiter.time_wrap, or what it raised
BridgeProcessHealth(outcome) ==
    /\ mgrCall' = IF outcome = "returns" THEN Returned("process_health", "result")
                  ELSE Raised("process_health", "Exception")
    /\ mgrCalls' = mgrCalls + 1
    /\ UNCHANGED <<arbiter, mesh, pulse, active, last_omega_heartbeat,
                   last_lambda_heartbeat, meshVars, pulseVars>>

\* get_mesh_vitals(): self.mesh.get_vitals()
BridgeGetMeshVitals ==
    /\ mgrCall' = Returned("get_mesh_vitals",
                           [nodes |-> Cardinality(DOMAIN nodes), alive |-> alive,
                            queue_size |-> Len(message_queue),
                            messages_delivered |-> messages_delivered,
                            messages_dropped |-> messages_dropped,
                            signal_log_size |-> Len(signal_log)])
    /\ mgrCalls' = mgrCalls + 1
    /\ UNCHANGED <<arbiter, mesh, pulse, active, last_omega_heartbeat,
                   last_lambda_heartbeat, meshVars, pulseVars>>

\* broadcast(message): self.mesh.broadcast("android-bridge", message)
BridgeBroadcast(data) ==
    /\ MeshBroadcast("android-bridge", data)
    /\ mgrCall' = Returned("broadcast", "None")
    /\ mgrCalls' = mgrCalls + 1
    /\ UNCHANGED <<arbiter, mesh, pulse, active, last_omega_heartbeat,
                   last_lambda_heartbeat, pulseVars>>

\* stop_organism(): logs and returns {"status": "stopped"}; neither the mesh
\* nor the pulse is touched
StopOrganism ==
    /\ mgrCall' = Returned("stop_organism", [status |-> "stopped"])
    /\ mgrCalls' = mgrCalls + 1
    /\ UNCHANGED <<arbiter, mesh, pulse, active, last_omega_heartbeat,
                   last_lambda_heartbeat, meshVars, pulseVars>>

(***************************************************************************)
(*     Tetrastrat decision: fractal_total of the library and the facade    *)
(***************************************************************************)

\* Bound of the tetrastrat inputs.
MaxHalves == 12         \* states range over -MaxHalves/2 .. MaxHalves/2 in steps of 0.5

\* CFG.theta_low and CFG.theta_high, in hundredths
ThetaLow == 30
ThetaHigh == 70

\* A state value s: a real number held as a count of halves, or one of the
\* floats that are no real number.
SNum(h) == [kind |-> "num", halves |-> h]
SInf == [kind |-> "inf", halves |-> 0]
SNegInf == [kind |-> "-inf", halves |-> 0]
SNan == [kind |-> "nan", halves |-> 0]
StateInputs == {SNum(h) : h \in (0 - MaxHalves)..MaxHalves} \cup {SInf, SNegInf, SNan}

\* resiliences, in hundredths
ThetaInputs == {20, 30, 50, 70, 90}

\* _STATE_MAP
STATE_MAP ==
    [ i \in {1, 0, -1} |->
        CASE i = 1 -> <<"Regen", <<"Scan", "Detect", "Quarantine", "Heal", "Improve", "Reinvest">>>>
          [] i = 0 -> <<"Neutral", <<"Scan", "Detect", "Quarantine", "Heal", "Neutralize", "Stabilize">>>>
          [] OTHER -> <<"Entropy", <<"Reinvest_neg", "Degrade", "Infect", "Spread", "Ignore", "Blind">>>> ]

\* fallback(theta)
Fallback(theta) ==
    IF theta >= ThetaHigh THEN <<"Fallback->+1", <<"Regen">>>>
    ELSE IF theta >= ThetaLow THEN <<"Fallback->0", <<"Neutral">>>>
    ELSE <<"Fallback->-1", <<"Entropy">>>>

\* a call's outcome
FracReturned(fn, ret) == [fn |-> fn, raised |-> "", ret |-> ret]
FracRaised(fn, exc) == [fn |-> fn, raised |-> exc, ret |-> <<>>]
NoFracCall == [fn |-> "", raised |-> "", ret |-> <<>>]

\* `s in _STATE_MAP`: a float equal to a key hashes and compares as the key
InStateMap(s) == s.kind = "num" /\ s.halves \in {2, 0, -2}

\* int(s): truncation toward zero
IntOf(s) == IF s.halves >= 0 THEN s.halves \div 2 ELSE 0 - ((0 - s.halves) \div 2)

\* fractal.fractal_total(s, theta)
LibFractalTotal(s, theta) ==
    IF InStateMap(s) THEN FracReturned("fractal", STATE_MAP[s.halves \div 2])
    ELSE IF s.kind = "inf" THEN FracReturned("fractal", Fallback(theta))
    ELSE FracRaised("fractal", "ValueError")

\* venom_api.fractal_total(s, theta): `s_int = int(s) if s != float("inf")
\* else float("inf")`; int() raises OverflowError on -inf and ValueError on nan
ApiFractalTotal(s, theta) ==
    IF s.kind = "inf" THEN FracReturned("venom_api", Fallback(theta))
    ELSE IF s.kind = "-inf" THEN FracRaised("venom_api", "OverflowError")
    ELSE IF s.kind = "nan" THEN FracRaised("venom_api", "ValueError")
    ELSE IF IntOf(s) \in DOMAIN STATE_MAP THEN FracReturned("venom_api", STATE_MAP[IntOf(s)])
    ELSE FracRaised("venom_api", "ValueError")

\* no call was made
FracIdle == fracIn = [s |-> SInf, theta |-> 50] /\ fracOut = NoFracCall

\* a caller's arguments
FracInit == fracIn \in [s : StateInputs, theta : ThetaInputs] /\ fracOut = NoFracCall

\* the library function is called
CallLibFractalTotal ==
    /\ fracOut' = LibFractalTotal(fracIn.s, fracIn.theta)
    /\ UNCHANGED fracIn

\* the facade's copy is called (GET /fractal_total takes s as a float)
CallApiFractalTotal ==
    /\ fracOut' = ApiFractalTotal(fracIn.s, fracIn.theta)
    /\ UNCHANGED fracIn

(***************************************************************************)
(*                    EntropyCore: the immune cycle                        *)
(***************************************************************************)

\* Bound of the Entropy runs.
MaxEntropyCycles == 3   \* cycle() calls

\* the thresholds of detect_threats, in hundredths
CpuSpikeBelow == 10
MemoryAttackBelow == 20
ThermalAttackBelow == 30
\* learn keeps the last 100 threats
LearnedCap == 100

\* health snapshots, in hundredths: each field below its threshold or on it
EntropyHealth ==
    [ cpu_health : {5, 10}, memory_health : {10, 20}, thermal_health : {20, 30} ]

\* detect_threats(health_data)
DetectThreats(h) ==
    (IF h.cpu_health < CpuSpikeBelow THEN <<"cpu_spike">> ELSE <<>>)
    \o (IF h.memory_health < MemoryAttackBelow THEN <<"memory_attack">> ELSE <<>>)
    \o (IF h.thermal_health < ThermalAttackBelow THEN <<"thermal_attack">> ELSE <<>>)

\* `threat in self.learned_threats`
Learned(learned, threat) == \E i \in DOMAIN learned : learned[i] = threat

\* (mutation of DefendScore: every threat is met as a known one)
DefendScoreKnown(threats, learned) == 2 * Len(threats)

\* the loop of defend: defended_count in halves, 1 for a known threat and 0.5
\* for a new one
RECURSIVE DefendScore(_, _)
DefendScore(threats, learned) ==
    IF threats = <<>> THEN 0
    ELSE (IF Learned(learned, Head(threats)) THEN 2 ELSE 1) + DefendScore(Tail(threats), learned)

\* defend(threats): int(defended_count)
Defend(threats, learned) == DefendScore(threats, learned) \div 2

\* learn(threats): new threats are appended, the last 100 are kept
RECURSIVE Learn(_, _)
Learn(learned, threats) ==
    IF threats = <<>>
    THEN IF Len(learned) > LearnedCap
         THEN SubSeq(learned, Len(learned) - LearnedCap + 1, Len(learned))
         ELSE learned
    ELSE Learn(IF Learned(learned, Head(threats)) THEN learned ELSE Append(learned, Head(threats)),
               Tail(threats))

\* no cycle was run
NoCycle == [threats |-> <<>>, ret |-> <<>>]

\* EntropyCore.__init__
EntIdle ==
    /\ learned_threats = <<>>
    /\ defense_count = 0
    /\ entLast = NoCycle
    /\ entSeen = {}
    /\ entCycles = 0

\* EntropyCore.cycle(health_data): self_attack, detect_threats, defend, learn,
\* `self.defense_count += defended`, and the returned dict
EntropyCoreCycle(h) ==
    LET threats == DetectThreats(h)
        defended == Defend(threats, learned_threats)
        learned == Learn(learned_threats, threats)
    IN  /\ learned_threats' = learned
        /\ defense_count' = defense_count + defended
        /\ entLast' = [ threats |-> threats,
                        ret |-> [ organ |-> "ENTROPY", action |-> "defending",
                                  threats_detected |-> Len(threats),
                                  defended |-> defended,
                                  learned |-> Len(learned),
                                  total_defenses |-> defense_count + defended ] ]
        /\ entSeen' = entSeen \cup {threats[i] : i \in DOMAIN threats}
        /\ entCycles' = entCycles + 1

(***************************************************************************)
(*                            Specifications                               *)
(***************************************************************************)

\* what a specification of one component leaves alone
OnlyNano == UNCHANGED <<meshVars, arbVars, orchVars, discVars, busVars, pulseVars, mgrVars, fracVars, entVars>>
OnlyMesh == UNCHANGED <<nanoVars, arbVars, orchVars, discVars, busVars, pulseVars, mgrVars, fracVars, entVars>>
OnlyArb == UNCHANGED <<nanoVars, meshVars, orchVars, discVars, busVars, pulseVars, mgrVars, fracVars, entVars>>
OnlyOrch == UNCHANGED <<nanoVars, meshVars, arbVars, discVars, busVars, pulseVars, mgrVars, fracVars, entVars>>
OnlyDisc == UNCHANGED <<nanoVars, meshVars, arbVars, orchVars, busVars, pulseVars, mgrVars, fracVars, entVars>>
OnlyBus == UNCHANGED <<nanoVars, meshVars, arbVars, orchVars, discVars, pulseVars, mgrVars, fracVars, entVars>>
OnlyPulse == UNCHANGED <<nanoVars, meshVars, arbVars, orchVars, discVars, busVars, mgrVars, fracVars, entVars>>
OnlyFrac ==
    UNCHANGED <<nanoVars, meshVars, arbVars, orchVars, discVars, busVars, pulseVars, mgrVars,
                entVars>>
OnlyEnt ==
    UNCHANGED <<nanoVars, meshVars, arbVars, orchVars, discVars, busVars, pulseVars, mgrVars,
                fracVars>>
OnlyLambda == UNCHANGED <<nanoVars, arbVars, orchVars, discVars, busVars, fracVars, entVars>>

\* Capacity runs: an active bot is filled past its capacity, with clears.
NanoFillInit == NanoStart /\ MeshIdle /\ ArbIdle /\ OrchIdle /\ DiscIdle /\ BusIdle /\ PulseIdle /\ MgrIdle /\ FracIdle /\ EntIdle

NanoFillNext ==
    \/ (nanoCalls < bot.memory_capacity + MaxExtra /\ NanoReceive /\ OnlyNano)
    \/ (Len(bot.memory) > 0 /\ NanoClearMemory /\ OnlyNano)

NanoFillSpec == NanoFillInit /\ [][NanoFillNext]_vars

\* Life-cycle runs: receive, clear, deactivate and reactivate in any order.
NanoLifeInit == NanoStart /\ MeshIdle /\ ArbIdle /\ OrchIdle /\ DiscIdle /\ BusIdle /\ PulseIdle /\ MgrIdle /\ FracIdle /\ EntIdle

NanoLifeNext ==
    \/ (/\ nanoCalls < MaxCalls
        /\ (bot.active \/ nanoRejected < MaxRejected)
        /\ NanoReceive /\ OnlyNano)
    \/ (Len(bot.memory) > 0 /\ NanoClearMemory /\ OnlyNano)
    \/ (NanoDeactivate /\ OnlyNano)
    \/ (NanoReactivate /\ OnlyNano)

NanoLifeSpec == NanoLifeInit /\ [][NanoLifeNext]_vars

\* A mesh that is started and keeps running: nodes are added (never removed or
\* replaced), callers broadcast and send, the delivery thread runs.
MeshRunInit == NanoIdle /\ MeshInit /\ ArbIdle /\ OrchIdle /\ DiscIdle /\ BusIdle /\ PulseIdle /\ MgrIdle /\ FracIdle /\ EntIdle

MeshRunNext ==
    \/ \E n \in NodeIds \ DOMAIN nodes : MeshAddNode(n) /\ OnlyMesh
    \/ (MeshStart /\ OnlyMesh)
    \/ \E sender \in SenderIds, data \in DataSet :
          meshCalls < MaxMeshCalls /\ MeshBroadcast(sender, data) /\ OnlyMesh
    \/ \E recipient \in NodeIds, data \in DataSet :
          meshCalls < MaxMeshCalls /\ MeshSend(recipient, data) /\ OnlyMesh
    \/ \E t \in Threads : LoopTop(t) /\ OnlyMesh
    \/ \E t \in Threads : LoopPoll(t) /\ OnlyMesh
    \/ \E t \in Threads : LoopDeliver(t) /\ OnlyMesh
    \/ \E t \in Threads : LoopLog(t) /\ OnlyMesh
    \/ \E t \in Threads : LoopCount(t) /\ OnlyMesh

\* The delivery thread is a daemon thread of a live process: it keeps being
\* scheduled, which is weak fairness of its steps.
MeshRunSpec ==
    MeshRunInit /\ [][MeshRunNext]_vars
    /\ \A t \in Threads : WF_vars(LoopStep(t) /\ OnlyMesh)

\* A running mesh some of whose nodes are not NanoBots: nodes are added (never
\* removed or replaced), callers broadcast and send, the delivery thread runs.
FaultNodeIds == {"nano_1", "nano_2"}

MeshFaultInit ==
    NanoIdle /\ MeshInit /\ ArbIdle /\ OrchIdle /\ DiscIdle /\ BusIdle /\ PulseIdle /\ MgrIdle /\ FracIdle /\ EntIdle

MeshFaultNext ==
    \/ \E n \in FaultNodeIds \ DOMAIN nodes : MeshAddNode(n) /\ OnlyMesh
    \/ \E n \in FaultNodeIds \ DOMAIN nodes : MeshAddRoleNode(n) /\ OnlyMesh
    \/ (MeshStart /\ OnlyMesh)
    \/ \E data \in DataSet :
          meshCalls < MaxMeshCalls /\ MeshBroadcast("android-bridge", data) /\ OnlyMesh
    \/ \E recipient \in FaultNodeIds, data \in DataSet :
          meshCalls < MaxMeshCalls /\ MeshSend(recipient, data) /\ OnlyMesh
    \/ \E t \in Threads : LoopTop(t) /\ OnlyMesh
    \/ \E t \in Threads : LoopPoll(t) /\ OnlyMesh
    \/ \E t \in Threads : LoopDeliver(t) /\ OnlyMesh
    \/ \E t \in Threads : LoopLog(t) /\ OnlyMesh
    \/ \E t \in Threads : LoopCount(t) /\ OnlyMesh

MeshFaultSpec ==
    MeshFaultInit /\ [][MeshFaultNext]_vars
    /\ \A t \in Threads : WF_vars(LoopStep(t) /\ OnlyMesh)

\* A mesh that has been running for long: nano_1 received LogStart messages
\* "old", all delivered and logged, nano_2 was just added; callers send and
\* broadcast, the delivery thread runs.
LogStart == SignalLogCap - 1

OldBot ==
    [ NewNanoBot(RoleOf("nano_1")) EXCEPT
        !.memory = [i \in 1..GetMemoryCapacity(RoleOf("nano_1")) |->
                       ProcessMessage(RoleOf("nano_1"), NewMessage("old"))],
        !.messages_received = LogStart,
        !.messages_processed = LogStart ]

MeshLogInit ==
    /\ NanoIdle /\ ArbIdle /\ OrchIdle /\ DiscIdle /\ BusIdle /\ PulseIdle /\ MgrIdle /\ FracIdle /\ EntIdle
    /\ nodes = [n \in FaultNodeIds |-> IF n = "nano_1" THEN OldBot ELSE NewNanoBot(RoleOf(n))]
    /\ nodeOrder = <<"nano_1", "nano_2">>
    /\ message_queue = <<>>
    /\ alive = TRUE
    /\ signal_log = [i \in 1..LogStart |-> [recipient |-> "nano_1", data |-> "old"]]
    /\ messages_delivered = LogStart
    /\ messages_dropped = 0
    /\ total_nodes = 2
    /\ loops = [t \in Threads |->
                  [pc |-> IF t = 1 THEN "top" ELSE "unborn", nid |-> "", data |-> "", tmp |-> 0, orphan |-> FALSE]]
    /\ meshExpect = [n \in NodeIds |-> IF n = "nano_1" THEN LogStart ELSE 0]
    /\ meshEnqueued = LogStart
    /\ meshCalls = 0

MeshLogNext ==
    \/ \E data \in DataSet :
          meshCalls < MaxMeshCalls /\ MeshBroadcast("test_sender", data) /\ OnlyMesh
    \/ \E recipient \in FaultNodeIds, data \in DataSet :
          meshCalls < MaxMeshCalls /\ MeshSend(recipient, data) /\ OnlyMesh
    \/ \E t \in Threads : LoopTop(t) /\ OnlyMesh
    \/ \E t \in Threads : LoopPoll(t) /\ OnlyMesh
    \/ \E t \in Threads : LoopDeliver(t) /\ OnlyMesh
    \/ \E t \in Threads : LoopLog(t) /\ OnlyMesh
    \/ \E t \in Threads : LoopCount(t) /\ OnlyMesh

MeshLogSpec ==
    MeshLogInit /\ [][MeshLogNext]_vars
    /\ \A t \in Threads : WF_vars(LoopStep(t) /\ OnlyMesh)

\* A mesh over its life: two nodes were added; start() and stop() are called
\* in any order, callers send, the delivery threads run.
MeshStopInit ==
    /\ NanoIdle /\ ArbIdle /\ OrchIdle /\ DiscIdle /\ BusIdle /\ PulseIdle /\ MgrIdle /\ FracIdle /\ EntIdle
    /\ nodes = [n \in FaultNodeIds |-> NewNanoBot(RoleOf(n))]
    /\ nodeOrder = <<"nano_1", "nano_2">>
    /\ message_queue = <<>>
    /\ alive = FALSE
    /\ signal_log = <<>>
    /\ messages_delivered = 0
    /\ messages_dropped = 0
    /\ total_nodes = 2
    /\ loops = [t \in Threads |-> [pc |-> "unborn", nid |-> "", data |-> "", tmp |-> 0, orphan |-> FALSE]]
    /\ meshExpect = [n \in NodeIds |-> 0]
    /\ meshEnqueued = 0
    /\ meshCalls = 0

MeshStopNext ==
    \/ (MeshStart /\ OnlyMesh)
    \/ (MeshStop /\ OnlyMesh)
    \/ \E recipient \in FaultNodeIds :
          meshCalls < MaxMeshCalls /\ MeshSend(recipient, "m1") /\ OnlyMesh
    \/ \E t \in Threads : LoopTop(t) /\ OnlyMesh
    \/ \E t \in Threads : LoopPoll(t) /\ OnlyMesh
    \/ \E t \in Threads : LoopDeliver(t) /\ OnlyMesh
    \/ \E t \in Threads : LoopLog(t) /\ OnlyMesh
    \/ \E t \in Threads : LoopCount(t) /\ OnlyMesh

MeshStopSpec ==
    MeshStopInit /\ [][MeshStopNext]_vars
    /\ \A t \in Threads : WF_vars(LoopStep(t) /\ OnlyMesh)

\* A mesh over its life, with payloads that tell the calls apart: the k-th
\* broadcast or send call carries the k-th payload.
PayloadNames == <<"p1", "p2", "p3", "p4">>
Payload(k) == PayloadNames[k]
PayloadIndex(data) == CHOOSE k \in DOMAIN PayloadNames : PayloadNames[k] = data

MeshOrderNext ==
    \/ (MeshStart /\ OnlyMesh)
    \/ (MeshStop /\ OnlyMesh)
    \/ (meshCalls < MaxMeshCalls /\ MeshBroadcast("test_sender", Payload(meshCalls + 1)) /\ OnlyMesh)
    \/ \E recipient \in FaultNodeIds :
          meshCalls < MaxMeshCalls /\ MeshSend(recipient, Payload(meshCalls + 1)) /\ OnlyMesh
    \/ \E t \in Threads : LoopTop(t) /\ OnlyMesh
    \/ \E t \in Threads : LoopPoll(t) /\ OnlyMesh
    \/ \E t \in Threads : LoopDeliver(t) /\ OnlyMesh
    \/ \E t \in Threads : LoopLog(t) /\ OnlyMesh
    \/ \E t \in Threads : LoopCount(t) /\ OnlyMesh

MeshOrderSpec ==
    MeshStopInit /\ [][MeshOrderNext]_vars
    /\ \A t \in Threads : WF_vars(LoopStep(t) /\ OnlyMesh)

\* A mesh whose nodes come and go: two nodes were added; the mesh is started,
\* callers send, nodes are removed and added again under the same id, the
\* delivery thread runs.
MeshChurnNext ==
    \/ (MeshStart /\ OnlyMesh)
    \/ \E recipient \in FaultNodeIds, data \in DataSet :
          meshCalls < MaxMeshCalls /\ MeshSend(recipient, data) /\ OnlyMesh
    \/ \E n \in FaultNodeIds : MeshRemoveNode(n) /\ OnlyMesh
    \/ \E n \in FaultNodeIds \ DOMAIN nodes :
          total_nodes < MaxNodeAdds /\ MeshAddNode(n) /\ OnlyMesh
    \/ \E t \in Threads : LoopTop(t) /\ OnlyMesh
    \/ \E t \in Threads : LoopPoll(t) /\ OnlyMesh
    \/ \E t \in Threads : LoopDeliver(t) /\ OnlyMesh
    \/ \E t \in Threads : LoopLog(t) /\ OnlyMesh
    \/ \E t \in Threads : LoopCount(t) /\ OnlyMesh

MeshChurnSpec ==
    MeshStopInit /\ [][MeshChurnNext]_vars
    /\ \A t \in Threads : WF_vars(LoopStep(t) /\ OnlyMesh)

\* time_wrap calls on a canonical arbiter: any snapshot, organs finishing in
\* any order and at any time, or not at all.
ArbInit == NanoIdle /\ MeshIdle /\ ArbStart /\ OrchIdle /\ DiscIdle /\ BusIdle /\ PulseIdle /\ MgrIdle /\ FracIdle /\ EntIdle

ArbNext ==
    \/ \E h \in HealthChoices \cup {DefaultHealth} : TimeWrapCall(h) /\ OnlyArb
    \/ \E o \in OrganNames : OrganFinish(o) /\ OnlyArb
    \/ (Tick /\ OnlyArb)
    \/ \E o \in OrganNames : Collect(o) /\ OnlyArb
    \/ (TimeWrapReturn /\ OnlyArb)

ArbSpec == ArbInit /\ [][ArbNext]_vars

\* The constructor of the canonical arbiter on every genome file.
GenomeInit ==
    /\ NanoIdle /\ MeshIdle /\ OrchIdle /\ DiscIdle /\ BusIdle /\ PulseIdle /\ MgrIdle /\ FracIdle /\ EntIdle
    /\ genome = DefaultGenome
    /\ health = DefaultHealth
    /\ twPc = "idle"
    /\ futures = [o \in OrganNames |-> "none"]
    /\ organRet = [o \in OrganNames |-> <<>>]
    /\ results = <<>>
    /\ elapsed = 0
    /\ late = {}
    /\ twResult = <<>>
    /\ \E f \in GenomeFiles : arbCtor = CtorPending(f)

GenomeNext == ArbConstruct /\ OnlyArb

GenomeSpec == GenomeInit /\ [][GenomeNext]_vars


\* The orchestrator's health checks: the registry is reloaded with whatever
\* the discovery daemon wrote, time passes, callers ask for a peer's health.
OrchHealthInit == NanoIdle /\ MeshIdle /\ ArbIdle /\ OrchInit /\ DiscIdle /\ BusIdle /\ PulseIdle /\ MgrIdle /\ FracIdle /\ EntIdle

OrchHealthNext ==
    \/ \E order \in RegistryOrders, recs \in [PeerIds -> PeerRecords] :
          OrchLoadPeers(order, [n \in Range(order) |-> recs[n]]) /\ OnlyOrch
    \/ (OrchTick /\ OnlyOrch)
    \/ \E node_id \in PeerIds \cup {"unknown"} : OrchHealthCheck(node_id) /\ OnlyOrch

OrchHealthSpec == OrchHealthInit /\ [][OrchHealthNext]_vars

\* The orchestrator's dispatching: the registry is loaded, the background loop
\* reloads it and decays the loads, time passes, callers dispatch tasks.
OrchDispatchInit == NanoIdle /\ MeshIdle /\ ArbIdle /\ OrchInit /\ DiscIdle /\ BusIdle /\ PulseIdle /\ MgrIdle /\ FracIdle /\ EntIdle

OrchDispatchNext ==
    \/ \E order \in RegistryOrders, recs \in [PeerIds -> PeerRecords] :
          OrchLoadPeers(order, [n \in Range(order) |-> recs[n]]) /\ OnlyOrch
    \/ \E order \in RegistryOrders, recs \in [PeerIds -> PeerRecords] :
          /\ loopIterations < MaxLoopIterations
          /\ OrchLoopIteration(order, [n \in Range(order) |-> recs[n]])
          /\ OnlyOrch
    \/ (OrchTick /\ OnlyOrch)
    \/ (dispatchCalls < MaxDispatch /\ OrchDispatchTask /\ OnlyOrch)

OrchDispatchSpec == OrchDispatchInit /\ [][OrchDispatchNext]_vars

\* Dispatching in a row: load_peers has read a registry of two peers, in
\* either key order, that stay healthy; load tracking is empty; callers
\* dispatch tasks and the background loop does not run.
OrchBalanceInit ==
    /\ NanoIdle /\ MeshIdle /\ ArbIdle /\ DiscIdle /\ BusIdle /\ PulseIdle /\ MgrIdle /\ FracIdle /\ EntIdle
    /\ peers = [n \in PeerIds |-> [last_seen |-> OrchEpoch]]
    /\ peerOrder \in {ord \in [1..2 -> PeerIds] : ord[1] # ord[2]}
    /\ load_tracking = <<>>
    /\ orchNow = OrchEpoch
    /\ hcResult = [id |-> "", known |-> FALSE, age |-> 0, healthy |-> FALSE]
    /\ lastSelected = ""
    /\ dispatchCalls = 0
    /\ loopIterations = 0
    /\ dispatched = [n \in PeerIds |-> 0]

OrchBalanceNext ==
    \/ (dispatchCalls < MaxBalanceCalls /\ OrchDispatchTask /\ OnlyOrch)

OrchBalanceSpec == OrchBalanceInit /\ [][OrchBalanceNext]_vars

\* The discovery registry: the module's functions run in any order while
\* datagrams arrive and time passes.
DiscRunInit == NanoIdle /\ MeshIdle /\ ArbIdle /\ OrchIdle /\ DiscInit /\ BusIdle /\ PulseIdle /\ MgrIdle /\ FracIdle /\ EntIdle

DiscNext ==
    \/ (DiscLoadPeers /\ OnlyDisc)
    \/ (DiscSavePeers /\ OnlyDisc)
    \/ (DiscAnnouncePresence /\ OnlyDisc)
    \/ \E dg \in Datagrams, ip \in SourceIps :
          /\ discDatagrams < MaxDatagrams
          /\ DiscListen(dg, ip)
          /\ OnlyDisc
    \/ (DiscCleanupPeers /\ OnlyDisc)
    \/ \E d \in TickSteps : DiscTick(d) /\ OnlyDisc

DiscSpec == DiscRunInit /\ [][DiscNext]_vars

\* The registry in memory: announcements, datagrams, cleanups and the clock,
\* without the peers file.
PeerRunInit == NanoIdle /\ MeshIdle /\ ArbIdle /\ OrchIdle /\ DiscInit /\ BusIdle /\ PulseIdle /\ MgrIdle /\ FracIdle /\ EntIdle

PeerNext ==
    \/ (DiscAnnouncePresence /\ OnlyDisc)
    \/ \E dg \in Datagrams, ip \in SourceIps :
          /\ discDatagrams < MaxDatagrams
          /\ DiscListen(dg, ip)
          /\ OnlyDisc
    \/ (DiscCleanupPeers /\ OnlyDisc)
    \/ \E d \in TickSteps : DiscTick(d) /\ OnlyDisc

PeerSpec == PeerRunInit /\ [][PeerNext]_vars

\* The daemon as a process: the main thread loops, the listener thread takes
\* datagrams between any two steps of it.
DaemonInit ==
    NanoIdle /\ MeshIdle /\ ArbIdle /\ OrchIdle /\ DiscInit /\ BusIdle /\ PulseIdle /\ MgrIdle /\ FracIdle /\ EntIdle

DaemonNext ==
    \/ (DaemonStart /\ OnlyDisc)
    \/ \E sent \in BOOLEAN : DaemonAnnounce(sent) /\ OnlyDisc
    \/ (DaemonCleanupBegin /\ OnlyDisc)
    \/ (DaemonCleanupIterate /\ OnlyDisc)
    \/ (DaemonCleanupDelete /\ OnlyDisc)
    \/ (DaemonSaveBegin /\ OnlyDisc)
    \/ (DaemonSaveEnd /\ OnlyDisc)
    \/ (DaemonSleep /\ OnlyDisc)
    \/ (DaemonInterrupt /\ OnlyDisc)
    \/ \E dg \in Datagrams, ip \in SourceIps :
          /\ discDatagrams < MaxDatagrams
          /\ DaemonListen(dg, ip)
          /\ OnlyDisc

DaemonSpec == DaemonInit /\ [][DaemonNext]_vars

\* The daemon started again: the process finds the registry an earlier run
\* left on disc.
RestartInit ==
    NanoIdle /\ MeshIdle /\ ArbIdle /\ OrchIdle /\ DiscRestartInit /\ BusIdle /\ PulseIdle /\ MgrIdle /\ FracIdle /\ EntIdle

RestartSpec == RestartInit /\ [][DaemonNext]_vars


\* The message bus: handlers are registered, two threads send in either
\* direction, a third thread runs process_message_queue.
BusRunInit == NanoIdle /\ MeshIdle /\ ArbIdle /\ OrchIdle /\ DiscIdle /\ BusInit /\ PulseIdle /\ MgrIdle /\ FracIdle /\ EntIdle

BusNext ==
    \/ \E type \in HandlerTypes, behaviour \in HandlerBehaviours :
          RegisterHandler(type, behaviour) /\ OnlyBus
    \/ \E s \in Senders, dir \in Directions, message \in Messages :
          /\ busSendCalls < MaxSendCalls
          /\ SendAppend(s, dir, message)
          /\ OnlyBus
    \/ \E s \in Senders : SendRead(s) /\ OnlyBus
    \/ \E s \in Senders : SendWrite(s) /\ OnlyBus
    \/ (PmqOmega /\ OnlyBus)
    \/ (PmqLambda /\ OnlyBus)

BusSpec == BusRunInit /\ [][BusNext]_vars

\* The bus with handlers that enqueue a follow-up message while dispatched.
FollowUpNext ==
    \/ \E type \in HandlerTypes, behaviour \in SendingBehaviours :
          RegisterHandler(type, behaviour) /\ OnlyBus
    \/ \E s \in Senders, dir \in Directions, message \in Messages :
          /\ busSendCalls < MaxSendCalls
          /\ SendAppend(s, dir, message)
          /\ OnlyBus
    \/ \E s \in Senders : SendRead(s) /\ OnlyBus
    \/ \E s \in Senders : SendWrite(s) /\ OnlyBus
    \/ (PmqOmega /\ OnlyBus)
    \/ (PmqLambda /\ OnlyBus)

FollowUpSpec == BusRunInit /\ [][FollowUpNext]_vars

\* A manager over its life: a host attaches and starts components, the
\* manager is initialized, queried and shut down, the threads of the
\* components run.
LambdaInit ==
    NanoIdle /\ MeshInit /\ ArbIdle /\ OrchIdle /\ DiscIdle /\ BusIdle /\ PulseInit /\ MgrInit /\ FracIdle /\ EntIdle

LambdaNext ==
    \/ \E S \in SUBSET Components : mgrCalls < MaxMgrCalls /\ HostAttach(S) /\ OnlyLambda
    \/ (mgrCalls < MaxMgrCalls /\ HostStartMesh /\ OnlyLambda)
    \/ (mgrCalls < MaxMgrCalls /\ HostStartPulse /\ OnlyLambda)
    \/ (mgrCalls < MaxMgrCalls /\ InitializeLambda /\ OnlyLambda)
    \/ \E new \in {{"nano_1"}, {"nano_1", "nano_2"}} :
          mgrCalls < MaxMgrCalls /\ PopulateNanobots(new) /\ OnlyLambda
    \/ \E outcome \in WrapOutcomes :
          mgrCalls < MaxMgrCalls /\ ProcessHealthData(outcome) /\ OnlyLambda
    \/ (mgrCalls < MaxMgrCalls /\ GetMeshVitals /\ OnlyLambda)
    \/ (mgrCalls < MaxMgrCalls /\ GetPulseVitals /\ OnlyLambda)
    \/ \E data \in DataSet :
          mgrCalls < MaxMgrCalls /\ BroadcastMessage("omega", data) /\ OnlyLambda
    \/ (mgrCalls < MaxMgrCalls /\ CollectOmegaHealth /\ OnlyLambda)
    \/ (mgrCalls < MaxMgrCalls /\ ProcessLambdaResponse /\ OnlyLambda)
    \/ (mgrCalls < MaxMgrCalls /\ Shutdown /\ OnlyLambda)
    \/ \E t \in Threads : LoopTop(t) /\ UNCHANGED <<pulseVars, mgrVars>> /\ OnlyLambda
    \/ \E t \in Threads : LoopPoll(t) /\ UNCHANGED <<pulseVars, mgrVars>> /\ OnlyLambda
    \/ \E t \in BeatThreads : BeatTop(t) /\ UNCHANGED <<meshVars, mgrVars>> /\ OnlyLambda
    \/ \E t \in BeatThreads, outcome \in WrapOutcomes :
          pulseWraps < MaxWraps /\ BeatWrap(t, outcome)
          /\ UNCHANGED <<meshVars, mgrVars>> /\ OnlyLambda
    \/ \E t \in BeatThreads : BeatCount(t) /\ UNCHANGED <<meshVars, mgrVars>> /\ OnlyLambda
    \/ \E t \in BeatThreads : BeatTotal(t) /\ UNCHANGED <<meshVars, mgrVars>> /\ OnlyLambda
    \/ \E t \in BeatThreads : BeatExcept(t) /\ UNCHANGED <<meshVars, mgrVars>> /\ OnlyLambda

LambdaSpec == LambdaInit /\ [][LambdaNext]_vars

\* The host bridge: its methods in any order on a freshly constructed manager.
BridgeRunInit ==
    NanoIdle /\ MeshInit /\ ArbIdle /\ OrchIdle /\ DiscIdle /\ BusIdle /\ PulseInit /\ BridgeInit /\ FracIdle /\ EntIdle

BridgeNext ==
    \/ \E n \in 0..MaxNanobots : mgrCalls < MaxMgrCalls /\ StartOrganism(n) /\ OnlyLambda
    \/ \E outcome \in WrapOutcomes :
          mgrCalls < MaxMgrCalls /\ BridgeProcessHealth(outcome) /\ OnlyLambda
    \/ (mgrCalls < MaxMgrCalls /\ BridgeGetMeshVitals /\ OnlyLambda)
    \/ \E data \in DataSet : mgrCalls < MaxMgrCalls /\ BridgeBroadcast(data) /\ OnlyLambda
    \/ (mgrCalls < MaxMgrCalls /\ StopOrganism /\ OnlyLambda)

BridgeSpec == BridgeRunInit /\ [][BridgeNext]_vars

\* The two copies of fractal_total on every state value and resilience.
FracRunInit ==
    NanoIdle /\ MeshIdle /\ ArbIdle /\ OrchIdle /\ DiscIdle /\ BusIdle /\ PulseIdle /\ MgrIdle /\ FracInit /\ EntIdle

FracNext ==
    \/ (CallLibFractalTotal /\ OnlyFrac)
    \/ (CallApiFractalTotal /\ OnlyFrac)

FracSpec == FracRunInit /\ [][FracNext]_vars

\* The Entropy organ over successive cycles on any health snapshots.
EntRunInit ==
    NanoIdle /\ MeshIdle /\ ArbIdle /\ OrchIdle /\ DiscIdle /\ BusIdle /\ PulseIdle /\ MgrIdle /\ FracIdle /\ EntIdle

EntNext ==
    \E h \in EntropyHealth : entCycles < MaxEntropyCycles /\ EntropyCoreCycle(h) /\ OnlyEnt

EntSpec == EntRunInit /\ [][EntNext]_vars




\* A heartbeat over its life: start() and stop() in any order, the beat
\* threads run, time_wrap returns or raises.
PulseRunInit ==
    NanoIdle /\ MeshIdle /\ ArbIdle /\ OrchIdle /\ DiscIdle /\ BusIdle /\ PulseInit /\ MgrIdle /\ FracIdle /\ EntIdle

PulseNext ==
    \/ (PulseStart /\ OnlyPulse)
    \/ (PulseStop /\ OnlyPulse)
    \/ \E t \in BeatThreads : BeatTop(t) /\ OnlyPulse
    \/ \E t \in BeatThreads, outcome \in WrapOutcomes :
          pulseWraps < MaxWraps /\ BeatWrap(t, outcome) /\ OnlyPulse
    \/ \E t \in BeatThreads : BeatCount(t) /\ OnlyPulse
    \/ \E t \in BeatThreads : BeatTotal(t) /\ OnlyPulse
    \/ \E t \in BeatThreads : BeatExcept(t) /\ OnlyPulse

PulseSpec == PulseRunInit /\ [][PulseNext]_vars


(***************************************************************************)
(*                        NanoBot: checked properties                      *)
(***************************************************************************)

Min(a, b) == IF a < b THEN a ELSE b

\* the payloads held in a memory, oldest first
Payloads(mem) == [i \in 1..Len(mem) |-> mem[i].data]

\* the capacities the documentation gives per role
DocumentedCapacity(b) ==
    CASE b.role = "memory_carrier" -> 200
      [] b.role = "signal_relay" -> 50
      [] b.role = "knowledge_keeper" -> 500
      [] b.role = "generic" -> 100
      [] OTHER -> b.memory_capacity

\* C3: bounded FIFO memory.  With n messages accepted since the last
\* clear_memory and C the role's capacity, the memory holds exactly the last
\* min(n, C) accepted payloads in arrival order (so after C + k messages its
\* length is C and its oldest record is the (k+1)-th received one).
C3_BoundedFifoMemory ==
    LET n == Len(nanoLog)
        k == Min(n, DocumentedCapacity(bot))
    IN  /\ Len(bot.memory) = k
        /\ Payloads(bot.memory) = SubSeq(nanoLog, n - k + 1, n)

\* C3 witness: a signal_relay bot that accepted capacity + MaxExtra messages
\* without a clear holds 50 records, the oldest being the (MaxExtra+1)-th.
C3_Witness ==
    /\ bot.role = "signal_relay"
    /\ Len(nanoLog) = 50 + MaxExtra
    /\ Len(bot.memory) = 50
    /\ bot.memory[1].data = MaxExtra + 1

\* C4: deactivation.  A receive() call on a deactivated bot leaves the whole
\* bot (messages_received, messages_processed, memory) unchanged; a receive()
\* call on an active bot adds exactly one to messages_received; deactivate and
\* reactivate themselves leave the counters and the memory alone, so counting
\* resumes from the value held at deactivation.
C4_Deactivation ==
    [][ /\ (nanoCalls' = nanoCalls + 1 /\ ~bot.active) => bot' = bot
        /\ (nanoCalls' = nanoCalls + 1 /\ bot.active) =>
               bot'.messages_received = bot.messages_received + 1
        /\ (bot'.active # bot.active) =>
               /\ bot'.messages_received = bot.messages_received
               /\ bot'.messages_processed = bot.messages_processed
               /\ bot'.memory = bot.memory ]_vars

\* C4 witness: a call was rejected while deactivated, the bot was reactivated
\* and the latest call was accepted, the counter showing only the accepted calls.
C4_Witness ==
    /\ nanoRejected >= 1
    /\ bot.active
    /\ Len(nanoLog) >= 2
    /\ nanoLog[Len(nanoLog)] = nanoCalls
    /\ nanoLog[1] = 1
    /\ bot.messages_received = nanoCalls - nanoRejected

\* C28: role fallback.  A bot constructed with a role other than
\* memory_carrier, signal_relay and knowledge_keeper is a generic bot: once it
\* has received, its role is generic, its capacity is 100 and every record in
\* its memory is marked processed.
C28_RoleFallback ==
    (nanoCalls > 0 /\ bot.role \notin {"memory_carrier", "signal_relay", "knowledge_keeper"}) =>
        /\ bot.role = "generic"
        /\ bot.memory_capacity = CapGeneric
        /\ \A i \in 1..Len(bot.memory) : bot.memory[i].processed

(***************************************************************************)
(*                         Mesh: checked properties                        *)
(***************************************************************************)

\* the queue is empty and no delivery thread holds a dequeued message
MeshDrained ==
    /\ message_queue = <<>>
    /\ \A t \in Threads : loops[t].pc \in {"unborn", "top", "poll", "exited"}

\* every node has received exactly the messages addressed to it: one per
\* broadcast it was a node of and not the sender of, one per send to it
FanOutCounts == \A n \in DOMAIN nodes : nodes[n].messages_received = meshExpect[n]

\* C1: mesh fan-out.  On a started mesh of active NanoBots, none removed, once
\* the delivery loop has drained the queue every node other than the sender
\* of a broadcast has messages_received increased by exactly one per broadcast
\* and the sender's own counter is unchanged; and the drained state is reached.
C1_FanOut ==
    /\ [](MeshDrained => FanOutCounts)
    /\ (alive ~> (MeshDrained /\ FanOutCounts))

\* C1 witness: after the single call broadcast("nano_1", data) on a running
\* three-node mesh, drained: nano_2 and nano_3 received one message, nano_1 none.
C1_Witness ==
    /\ alive
    /\ MeshDrained
    /\ meshCalls = 1
    /\ DOMAIN nodes = NodeIds
    /\ nodes["nano_1"].messages_received = 0
    /\ nodes["nano_2"].messages_received = 1
    /\ nodes["nano_3"].messages_received = 1

\* messages a delivery thread has dequeued and not yet counted
InFlight == Cardinality({t \in Threads : loops[t].pc \in {"deliver", "log", "count"}})

\* C2: delivery conservation.  On a started mesh, with no node removed and no
\* receive raising, every enqueued message is pending, in delivery or counted
\* as delivered, exactly once; and messages_pending returns to 0 with
\* messages_delivered equal to the number of messages enqueued.
C2_DeliveryConservation ==
    /\ [](messages_delivered + Len(message_queue) + InFlight = meshEnqueued)
    /\ (alive ~> (Len(message_queue) = 0 /\ messages_delivered = meshEnqueued))

\* C2 witness: all calls made, at least two messages enqueued on a three-node
\* running mesh, none pending, all counted as delivered.
C2_Witness ==
    /\ alive
    /\ meshCalls = MaxMeshCalls
    /\ Cardinality(DOMAIN nodes) = 3
    /\ meshEnqueued >= 2
    /\ Len(message_queue) = 0
    /\ messages_delivered = meshEnqueued

\* C17: a delivery queue that holds messages has a capacity and holds no more
\* messages than that capacity (an enqueue on a full queue drops the message
\* instead).
C17_BoundedQueue ==
    message_queue # <<>> => (QueueMaxSize > 0 /\ Len(message_queue) <= QueueMaxSize)

\* thread t makes the step in which the receive of the node it delivers to raises
RaisingDelivery(t) ==
    /\ loops[t].pc = "deliver"
    /\ loops[t].nid \in DOMAIN nodes
    /\ ~HasReceive(nodes[loops[t].nid])
    /\ loops'[t] # loops[t]

\* C18: when the receive of a node raises during a delivery, messages_dropped
\* grows by one while messages_delivered, the signal log and the alive flag
\* stay as they were, and the thread is back at the head of its loop; no
\* delivery thread ever leaves the loop of a mesh that is not stopped; and the
\* messages behind the failed one are still handled: the queue drains, with
\* every enqueued message counted as delivered or as dropped.
C18_DeliveryException ==
    /\ [][ \A t \in Threads :
             RaisingDelivery(t) =>
                 /\ messages_dropped' = messages_dropped + 1
                 /\ UNCHANGED <<messages_delivered, signal_log, alive>>
                 /\ loops'[t].pc = "top" ]_vars
    /\ [](\A t \in Threads : loops[t].pc # "exited")
    /\ (alive ~> (MeshDrained /\ messages_delivered + messages_dropped = meshEnqueued))

\* C18 witness: a delivery has failed and been counted as dropped, and the
\* same loop is now logging the delivery of a later message
C18_Witness ==
    /\ messages_dropped >= 1
    /\ \E t \in Threads : loops[t].pc = "log"

\* C29: signal log cap.  get_vitals and get_recent_signals, which read the
\* log at any moment, never find more than 1000 entries in it; and after each
\* delivery (the thread being back at the top of its loop) the log holds
\* min(1000, n) entries, n being the number of deliveries so far, the newest
\* of them last.
C29_SignalLogCap ==
    /\ Len(signal_log) <= SignalLogCap
    /\ (\A t \in Threads : loops[t].pc \in {"unborn", "top", "exited"}) =>
          Len(signal_log) = IF messages_delivered < SignalLogCap
                            THEN messages_delivered ELSE SignalLogCap

\* every delivery thread that was started has left its loop
AllLoopsExited == \A t \in Threads : loops[t].pc \in {"unborn", "exited"}

\* C30: mesh stop.  Once the mesh is stopped, every delivery thread that is
\* still in its loop leaves it, unless start() is called again; and while
\* every started thread has left its loop, no step delivers a message to a
\* node or changes messages_delivered.
C30_MeshStop ==
    /\ \A t \in Threads :
          (~alive /\ loops[t].pc \notin {"unborn", "exited"}) ~> (loops[t].pc = "exited" \/ alive)
    /\ [][ AllLoopsExited =>
             /\ messages_delivered' = messages_delivered
             /\ signal_log' = signal_log
             /\ \A n \in DOMAIN nodes \cap DOMAIN nodes' : nodes'[n] = nodes[n] ]_vars

\* the mesh was stopped, its thread has exited after delivering, and a
\* message is left in the queue
C30_Witness ==
    /\ ~alive
    /\ AllLoopsExited
    /\ \E t \in Threads : loops[t].pc = "exited"
    /\ messages_delivered > 0
    /\ message_queue # <<>>

\* C37: the messages enqueued for one node by successive broadcast and send
\* calls are received by that node in the order in which they were enqueued,
\* whatever start and stop calls are made.
C37_PerRecipientOrder ==
    \A n \in DOMAIN nodes :
       \A i, j \in DOMAIN nodes[n].memory :
          i < j => PayloadIndex(nodes[n].memory[i].data) < PayloadIndex(nodes[n].memory[j].data)

\* C38: messages enqueued by broadcast or send while the mesh is not running
\* stay in the queue, where messages_pending counts them, until the next
\* start(): no such message leaves the queue before start() is called.
C38_QueueRetainedWhileStopped ==
    [][ Len(message_queue') < Len(message_queue) => ~Head(message_queue)[4] ]_vars

\* a delivery thread holds a message that was still queued for its node when
\* remove_node removed that node, and is about to look the node up
HoldsOrphan(t) == loops[t].pc = "deliver" /\ loops[t].orphan

\* the message a delivery thread holds is dropped without a trace
Discards(t) ==
    /\ loops'[t].pc = "top"
    /\ UNCHANGED <<nodes, signal_log, messages_delivered, messages_dropped>>

\* C36 (as claimed): a message still queued for a node when remove_node
\* removes that node is discarded when dequeued: it is delivered to no node,
\* adds no signal-log entry and changes neither counter.
C36_RemovedNodeMessage ==
    [][ \A t \in Threads : (HoldsOrphan(t) /\ loops'[t] # loops[t]) => Discards(t) ]_vars

\* C36 (amended): such a message is discarded when dequeued unless a node
\* has been added again under the same id by then; it is then delivered to
\* that node like any other message.
C36_RemovedNodeMessageUnlessReadded ==
    [][ \A t \in Threads :
           (HoldsOrphan(t) /\ loops'[t] # loops[t]) =>
               IF loops[t].nid \in DOMAIN nodes
               THEN /\ loops'[t].pc = "log"
                    /\ nodes' = [nodes EXCEPT ![loops[t].nid] = Receive(@, loops[t].data)]
               ELSE Discards(t) ]_vars

\* a message sent to a node that was then removed has been dequeued and
\* discarded: nothing is queued or in flight, nothing was delivered or dropped
C36_Witness ==
    /\ meshEnqueued = 1
    /\ message_queue = <<>>
    /\ \A t \in Threads : loops[t].pc \in {"top", "poll", "unborn"}
    /\ DOMAIN nodes # FaultNodeIds
    /\ total_nodes = 2
    /\ messages_delivered = 0 /\ messages_dropped = 0 /\ signal_log = <<>>
    /\ \A n \in DOMAIN nodes : nodes[n] = NewNanoBot(RoleOf(n))

\* the delivery threads that are inside the loop of deliver()
RunningLoops == {t \in Threads : loops[t].pc \notin {"unborn", "exited"}}

\* C32: single delivery loop.  Whatever the sequence of start() and stop()
\* calls, at most one delivery thread is running at a time.
C32_SingleDeliveryLoop == Cardinality(RunningLoops) <= 1

(***************************************************************************)
(*                     LambdaArbiter: checked properties                   *)
(***************************************************************************)

\* an entry of the organs map that is error-tagged: it carries "error" and no action
IsErrorEntry(entry) == "error" \in DOMAIN entry /\ "action" \notin DOMAIN entry

\* the genome weights of the organs whose cycle did not raise, and of all four
WeightOfSucceeded ==
    LET W == [o \in OrganNames |-> IF futures[o] = "raised" THEN 0 ELSE genome[OrganKey(o)]]
    IN  SumOver(OrganNames, W, 0)
WeightOfAll ==
    LET W == [o \in OrganNames |-> genome[OrganKey(o)]] IN SumOver(OrganNames, W, 0)

\* C5: organ failure isolation.  time_wrap never raises; when it has returned,
\* the slot of every organ whose cycle raised holds an error-tagged entry, the
\* slot of every other organ holds exactly what that organ's cycle returned,
\* and a failed organ adds 0 to the weighted score (the score is the weight of
\* the succeeded organs over the weight of all four).
C5_FailureIsolation ==
    /\ twPc # "raised"
    /\ twPc = "returned" =>
          /\ \A o \in OrganNames :
                IF futures[o] = "raised"
                THEN IsErrorEntry(twResult.organs[o])
                ELSE twResult.organs[o] = OrganCycle(o, health).ret
          /\ WeightOfAll > 0 =>
                /\ twResult.integrated_score.num = WeightOfSucceeded
                /\ twResult.integrated_score.den = WeightOfAll

\* C5 witness: with the default genome, only OPTIMIZE raised; time_wrap
\* returned the three other results and the score 65/95.
C5_Witness ==
    /\ twPc = "returned"
    /\ genome = DefaultGenome
    /\ {o \in OrganNames : futures[o] = "raised"} = {"OPTIMIZE"}
    /\ IsErrorEntry(twResult.organs["OPTIMIZE"])
    /\ twResult.organs["REGEN"].action = "monitoring"
    /\ twResult.integrated_score = [num |-> 65, den |-> 95]

\* C6 (as claimed): an organ whose cycle did not complete within the 5-second
\* timeout gets an error entry in the returned result: the cycle does not wait
\* for it.
C6_TimeoutIsolation ==
    twPc = "returned" => \A o \in late : IsErrorEntry(twResult.organs[o])

MalformedGenomeFile(f) ==
    \/ f.kind # "genome"
    \/ ~HasWeights(f.val)
    \/ f.val.weights.t # "dict"
    \/ ~(GenomeKeys \subseteq DOMAIN f.val.weights.w)

\* C26: genome fallback.  The constructor never raises on a missing or
\* malformed genome file; the arbiter then holds the default genome and
\* exactly the four organs.
C26_GenomeFallback ==
    (arbCtor.pc # "pending" /\ MalformedGenomeFile(arbCtor.file)) =>
        /\ arbCtor.pc = "returned"
        /\ arbCtor.genome = DefaultGenomeDoc
        /\ arbCtor.organs = OrganNames

(***************************************************************************)
(*                  MeshOrchestrator: checked properties                   *)
(***************************************************************************)

\* C8 as the specification words it: a peer last seen exactly 60 seconds ago
\* is reported healthy, one last seen 61 seconds ago is reported unhealthy, and
\* an id missing from the registry is reported unhealthy.
C8_BoundaryInclusive ==
    hcResult.id # "" =>
       /\ (hcResult.known /\ hcResult.age = 60) => hcResult.healthy
       /\ (hcResult.known /\ hcResult.age = 61) => ~hcResult.healthy
       /\ ~hcResult.known => ~hcResult.healthy

\* C8, as the code has it: health_check reports a known peer healthy exactly
\* when its last_seen is less than 60 seconds old, so a peer seen 59 seconds
\* ago is healthy and one seen exactly 60 seconds ago, or longer ago, is not;
\* an id missing from the registry is always unhealthy.
C8_HealthBoundary ==
    hcResult.id # "" =>
       /\ hcResult.known => (hcResult.healthy <=> hcResult.age < 60)
       /\ ~hcResult.known => ~hcResult.healthy

\* health_check was asked about a peer seen exactly 60 seconds ago and
\* answered that it is unhealthy
C8_Witness ==
    /\ hcResult.id \in PeerIds
    /\ hcResult.known
    /\ hcResult.age = 60
    /\ ~hcResult.healthy

\* the peers health_check calls healthy
HealthyPeers == {n \in DOMAIN peers : HealthCheck(n)}

\* C9: every dispatch_task call returns None exactly when no peer is healthy
\* at the time of the call, and otherwise returns a healthy peer whose load,
\* read before the call, is no greater than any other healthy peer's.
C9_LeastLoadedHealthy ==
    [][ dispatchCalls' = dispatchCalls + 1 =>
          /\ (lastSelected' = "None") <=> (HealthyPeers = {})
          /\ lastSelected' # "None" =>
                /\ lastSelected' \in HealthyPeers
                /\ \A m \in HealthyPeers : RecentLoad(lastSelected') <= RecentLoad(m) ]_vars

\* both peers are healthy, node1 carries the load of two tasks, and the task
\* just dispatched went to node2, which had none
C9_Witness ==
    /\ lastSelected = "node2"
    /\ HealthyPeers = {"node1", "node2"}
    /\ peerOrder = <<"node1", "node2">>
    /\ DOMAIN load_tracking = {"node1", "node2"}
    /\ load_tracking["node1"] = 1900
    /\ load_tracking["node2"] = 1000

\* C40: from empty load tracking, with a fixed set of peers that stay
\* healthy and no decay in between, the numbers of tasks given to any two
\* peers never differ by more than one, and each dispatch_task call changes
\* only the selected peer's tracked load, to 0.9 times its value plus 1.0.
C40_DispatchSpreadsLoad ==
    /\ [](\A a, b \in PeerIds : dispatched[a] - dispatched[b] <= 1)
    /\ [][ dispatchCalls' = dispatchCalls + 1 =>
              /\ load_tracking'[lastSelected'] = Nudged(RecentLoad(lastSelected'))
              /\ \A n \in DOMAIN load_tracking' \ {lastSelected'} :
                    n \in DOMAIN load_tracking /\ load_tracking'[n] = load_tracking[n] ]_vars

(***************************************************************************)
(*                Discovery peer registry: checked properties              *)
(***************************************************************************)

\* a dict as the mapping it denotes, whatever the order of its items
AsMap(d) == [k \in DictKeys(d) |-> DictValue(d, k)]

\* every addr of the dict is a (host, port) pair
AddrsArePairs(d) == \A i \in DOMAIN d : d[i].info.addr.t = "tuple"

\* load_peers has just read the file save_peers wrote
LoadedWhatWasSaved ==
    /\ discOp = "load_peers"
    /\ peerFile.exists
    /\ peerFile.items = JsonDumps(savedPeers)

\* C10: when load_peers reads the file save_peers wrote from a peer map whose
\* addresses are (host, port) pairs, the peer map it leaves equals the saved
\* one: the same peer ids, each with the same fields, and every addr, stored
\* as a list in the file, a (host, port) pair again.
C10_RoundTrip ==
    (LoadedWhatWasSaved /\ AddrsArePairs(savedPeers)) =>
        /\ \A i \in DOMAIN peerFile.items : peerFile.items[i].info.addr.t = "list"
        /\ AsMap(PEERS) = AsMap(savedPeers)

\* C21: the main loop of the daemon is never ended by an error: it runs until
\* it is interrupted, whatever datagrams arrive and however the listener's
\* upserts fall between the steps of cleanup_peers and save_peers.
C21_DaemonKeepsRunning == daemon.pc # "crashed"

\* the listener takes a datagram in this step
ListenerStep == discDatagrams' = discDatagrams + 1

\* a datagram that is not valid JSON, not a JSON object, or an object without "id"
Malformed(dg) == dg.kind \in {"not_json", "not_object"} \/ (dg.kind = "object" /\ ~dg.has_id)

\* C22: a malformed datagram is abandoned: the step in which the listener
\* takes a datagram that is not valid JSON, not a JSON object, or lacks an id
\* leaves the peer map as it was.
C22_MalformedAbandoned ==
    [][ (ListenerStep /\ Malformed(discLast'.dg)) => PEERS' = PEERS ]_vars

PmqEndedAlone == pmq.pc = "idle" /\ pmq.outcome \in {"returned", "raised"} /\ pmq.clean

\* C11: whenever a process_message_queue call has ended with no concurrent
\* sender, both direction queues are empty, whatever envelopes they held
\* (handled types, types without a handler, types outside MessageType).
C11_QueuesDrained ==
    PmqEndedAlone => (omega_to_lambda_queue = <<>> /\ lambda_to_omega_queue = <<>>)

\* C12: when a handler raised during a process_message_queue call, errors
\* went up by one for each such envelope, messages_received went up for none
\* of them, and every envelope the two queues held was still popped and
\* dispatched in that call.
C12_HandlerFailureIsolated ==
    (PmqEndedAlone /\ pmq.failed >= 1) =>
        /\ errors = pmq.errors0 + pmq.failed
        /\ messages_received - pmq.received0 <= pmq.taken - pmq.failed
        /\ pmq.taken = pmq.held

\* C13: once every send call has returned, all of them successfully,
\* messages_sent equals the number of envelopes ever appended to the two
\* queues, under any interleaving of the senders.
C13_SentCountsEnqueued ==
    ((\A s \in Senders : senders[s].pc = "idle") /\ busTrue = busSendCalls)
        => messages_sent = busEnqueued

\* C33: process_message_queue always terminates, also when a handler it
\* dispatches calls send_to_lambda or send_to_omega: the draining thread is
\* never left waiting for a lock it holds itself.
C33_NoSelfDeadlock == pmq.pc # "blocked"

(***************************************************************************)
(* IntegrationManager: the Lambda components                               *)
(***************************************************************************)

\* C14: when initialize_lambda() is the first call on a freshly constructed
\* manager it returns True, and afterwards the arbiter, the mesh and the
\* pulse exist, the mesh delivery loop and the heartbeat are running and
\* active is true.
C14_InitializeLambda ==
    (mgrCalls = 1 /\ mgrCall.op = "initialize_lambda") =>
        /\ mgrCall.ret = "True"
        /\ arbiter # "None" /\ mesh # "None" /\ pulse # "None"
        /\ alive /\ pulse_alive
        /\ active

\* C15: once shutdown() has returned, and until the next call on the manager
\* or its components, active is false and the pulse and the mesh the manager
\* holds are not alive; shutdown() did not raise, whether or not the manager
\* holds components and whether or not it was shut down before.
C15_Shutdown ==
    mgrCall.op = "shutdown" =>
        /\ ~mgrCall.raised
        /\ ~active
        /\ (pulse # "None" => ~pulse_alive)
        /\ (mesh # "None" => ~alive)

\* shutdown() has returned on a manager that holds a mesh and a pulse, both of
\* which had been started
C15_Witness ==
    /\ mgrCall.op = "shutdown"
    /\ mesh # "None" /\ pulse # "None"
    /\ loops[1].pc # "unborn" /\ beats[1].pc # "unborn"

NeededRef(op) ==
    CASE op = "process_health_data" -> arbiter
      [] op = "get_pulse_vitals" -> pulse
      [] OTHER -> mesh

\* what each delegating method returns without its component
UninitializedReturn(op) ==
    CASE op = "process_health_data" -> "error: Lambda Arbiter not initialized"
      [] op = "get_mesh_vitals" -> "error: Mesh not initialized"
      [] op = "get_pulse_vitals" -> "error: Pulse not initialized"
      [] OTHER -> "None"

DelegatingOps ==
    {"process_health_data", "get_mesh_vitals", "get_pulse_vitals", "populate_nanobots",
     "broadcast_message"}

\* C16: a call of process_health_data, get_mesh_vitals, get_pulse_vitals,
\* populate_nanobots or broadcast_message made while the component it needs
\* is None does not raise, returns the error record (None for the last two),
\* and leaves the queues, the counters, the heartbeats, active, the three
\* attributes, the mesh and the pulse as they were.
C16_UninitializedComponents ==
    [][ \A op \in DelegatingOps :
          (mgrCalls' = mgrCalls + 1 /\ mgrCall'.op = op /\ NeededRef(op) = "None") =>
              /\ ~mgrCall'.raised
              /\ mgrCall'.ret = UninitializedReturn(op)
              /\ UNCHANGED <<busVars, meshVars, pulseVars, arbiter, mesh, pulse, active,
                             last_omega_heartbeat, last_lambda_heartbeat>> ]_vars

\* get_pulse_vitals() has returned its error record on a manager without a
\* pulse, after a heartbeat of the Omega side had been recorded
C16_Witness ==
    /\ mgrCall.op = "get_pulse_vitals"
    /\ pulse = "None"
    /\ mgrCall.ret = "error: Pulse not initialized"
    /\ last_omega_heartbeat > 0

(***************************************************************************)
(* Host bridge: checked properties                                         *)
(***************************************************************************)

\* the role a node of the mesh carries
NodeRole(node) == IF HasReceive(node) THEN node.role ELSE node.str

\* C35: under any interleaving of the listener thread with the main loop,
\* cleanup_peers removes no peer whose last_seen, at the moment of removal,
\* is within PEER_TIMEOUT: a peer the listener refreshed while the cleanup
\* was in progress is kept.
C35_NoFreshPeerExpired ==
    [][ \A k \in DictKeys(PEERS) \ DictKeys(PEERS') :
           discNow - DictValue(PEERS, k).last_seen > PEER_TIMEOUT ]_vars

\* C39: the only entry of the peer map ever flagged is_local is the one keyed
\* by the NODE_ID of the running process, also after load_peers has read a
\* registry an earlier run wrote.
C39_OnlySelfIsLocal ==
    \A i \in DOMAIN PEERS : PEERS[i].info.is_local => PEERS[i].key = NODE_ID

\* C25: after the first start_organism(n) on the bridge, the mesh holds n
\* agents, nanobot-0 .. nanobot-(n-1), whose roles cycle memory_carrier,
\* signal_relay, knowledge_keeper, generic; a heartbeat bound to the arbiter
\* is running; the returned status reports nanobots = n and mesh_nodes = n.
C25_StartOrganism ==
    (mgrCalls = 1 /\ mgrCall.op = "start_organism") =>
        LET n == mgrCall.ret.nanobots
        IN  /\ Cardinality(DOMAIN nodes) = n
            /\ \A i \in 0..(n - 1) :
                  /\ BridgeNodeId(i) \in DOMAIN nodes
                  /\ NodeRole(nodes[BridgeNodeId(i)]) = BridgeRole(i)
            /\ mgrCall.ret.status = "started"
            /\ mgrCall.ret.mesh_nodes = n
            /\ pulse = ClassOf("pulse")
            /\ arbiter = ClassOf("arbiter")
            /\ pulse_alive

(***************************************************************************)
(* Tetrastrat decision: checked properties                                 *)
(***************************************************************************)

\* C27: either copy of fractal_total returns the Regen entry with its six
\* operations for state 1, fallback(theta) for +infinity, and fails with
\* ValueError for every state value outside {1, 0, -1, +infinity}.
C27_StateValidation ==
    fracOut.fn # "" =>
        LET s == fracIn.s
        IN  IF s = SNum(2)
            THEN fracOut = FracReturned(fracOut.fn, STATE_MAP[1]) /\ Len(fracOut.ret[2]) = 6
            ELSE IF s = SInf
                 THEN fracOut = FracReturned(fracOut.fn, Fallback(fracIn.theta))
                 ELSE IF s \in {SNum(0), SNum(-2)}
                      THEN fracOut.raised = ""
                      ELSE fracOut.raised = "ValueError"

(***************************************************************************)
(* EntropyCore: checked properties                                         *)
(***************************************************************************)

\* the score of a cycle in halves: 0.5 for a threat never detected before,
\* 1 for a threat detected in an earlier cycle
RECURSIVE ClaimedScore(_, _)
ClaimedScore(threats, seen) ==
    IF threats = <<>> THEN 0
    ELSE (IF Head(threats) \in seen THEN 2 ELSE 1) + ClaimedScore(Tail(threats), seen)

\* C31: defend before learn.  In every cycle a threat detected for the first
\* time scores 0.5 and a threat detected in an earlier cycle scores 1; the
\* cycle's defended value is the truncated sum of the scores, and
\* total_defenses is the running sum of the defended values.
C31_DefendBeforeLearn ==
    [][ entCycles' = entCycles + 1 =>
          LET defended == ClaimedScore(entLast'.threats, entSeen) \div 2
          IN  /\ entLast'.ret.defended = defended
              /\ entLast'.ret.total_defenses = defense_count + defended
              /\ defense_count' = defense_count + defended
              /\ (Len(entLast'.threats) = 1 /\ entLast'.threats[1] \notin entSeen)
                    => entLast'.ret.defended = 0 ]_vars

\* a cycle that met one known and one new threat: 1 + 0.5 truncated to 1
C31_Witness ==
    /\ entCycles = 2
    /\ entLast.threats = <<"cpu_spike", "memory_attack">>
    /\ learned_threats = <<"cpu_spike", "memory_attack">>
    /\ entLast.ret.defended = 1
    /\ defense_count = 1

(***************************************************************************)
(*                     PulseFractal: checked properties                    *)
(***************************************************************************)

\* C19: when time_wrap raises in a beat, that iteration leaves beat_count,
\* total_beats and the alive flag as they were and the thread goes back to the
\* head of its loop; a beat thread leaves its loop only on finding the alive
\* flag cleared.
C19_HeartbeatSurvives ==
    [][ \A t \in BeatThreads :
          /\ (beats[t].pc = "wrap" /\ beats'[t].pc # "wrap" /\ beats'[t].raisedAt # beats[t].raisedAt) =>
                 /\ beats'[t].pc = "except"
                 /\ UNCHANGED <<beat_count, total_beats, pulse_alive>>
          /\ (beats[t].pc = "except" /\ beats'[t] # beats[t]) =>
                 /\ beats'[t].pc = "top"
                 /\ UNCHANGED <<beat_count, total_beats, pulse_alive>>
          /\ (beats[t].pc # "exited" /\ beats'[t].pc = "exited") => ~pulse_alive ]_vars

\* C19 witness: a beat thread whose time_wrap call raised has called time_wrap
\* again, and that later beat is being counted on a pulse that is still alive
C19_Witness ==
    /\ pulse_alive
    /\ \E t \in BeatThreads :
          /\ beats[t].raisedAt >= 1
          /\ beats[t].calls > beats[t].raisedAt
          /\ beats[t].pc = "count"
          /\ total_beats = 0

\* the beat threads that are between reading and writing a counter of the pulse
PulseWriters == {t \in BeatThreads : beats[t].pc \in {"count", "total"}}

\* C20: at any time at most one beat thread is writing the state of the pulse.
C20_SinglePulseWriter == Cardinality(PulseWriters) <= 1

====
